---- MODULE Spec2Model ----
(***************************************************************************)
(* The irrigation control engine of the OpenSprinkler firmware: the        *)
(* runtime queue, the scheduler, the once-per-second control loop with     *)
(* master co-activation, dynamic events and the reboot request.            *)
(*                                                                         *)
(* Times are wall-clock seconds.  The model runs from T0, far enough from  *)
(* zero that no unsigned subtraction of a station delay wraps around.      *)
(***************************************************************************)
EXTENDS Integers, Sequences, FiniteSets, TLC

(***************************************************************************)
(* Bounds of the model.                                                    *)
(***************************************************************************)
NumStations == 4      \* stations of the controller (os.nstations)
QSize == 5            \* capacity of the runtime queue
MaxStep == 2          \* most seconds between two ticks of the control loop
MaxTicks == 12        \* seconds of wall clock the control loop is followed for
MaxExt == 1           \* option changes made between ticks in one run
MaxPulses == 4        \* pulses of the flow sensor in one run
FlowBase == 7         \* a millisecond other than 0 at which a run of the flow
                      \* sensor starts
MaxBoots == 3         \* times the controller is powered up in one run
MaxExtBoards == 2      \* extension boards of the shift register that is
                      \* followed (MAX_EXT_BOARDS)
EncodeRange == 700    \* water times from -EncodeRange to EncodeRange are encoded
MaxFlowSteps == 6     \* steps of the millisecond clock the flow sensor is
                      \* followed for
SchedLen == 3         \* queue entries the scheduler taken alone is given

(***************************************************************************)
(* Program constants.                                                      *)
(***************************************************************************)
NoQid == 255                  \* station_qid value: no queue element
SENSOR_TYPE_NONE == 0
SENSOR_TYPE_RAIN == 1
SENSOR_TYPE_FLOW == 2
SENSOR_TYPE_SOIL == 3
SENSOR_TYPE_PSWITCH == 240
REBOOT_CAUSE_NONE == 0
REBOOT_CAUSE_RESET == 1
REBOOT_CAUSE_TIMER == 4
REBOOT_CAUSE_POWERON == 99
ManualPid == 254              \* program id of a manually started program
FirstManualPid == 99          \* program ids from here on are exempt from dynamic events
RebootDelay == 65
OS_FW_VERSION == 219          \* the firmware version of the build
FwVersionValid == 219         \* options_setup: a stored version below this is
                              \* invalid
ULongBits == 32               \* bits of an unsigned long of the build followed
                              \* in the control loop
FlowWait == 90000             \* wait 90 seconds before recording flow_begin
SunriseDefault == 360
SunsetDefault == 1080

T0 == 100 * 60                \* the wall clock at boot: a minute boundary
Stations == 0 .. (NumStations - 1)
Slots == 0 .. (QSize - 1)

(***************************************************************************)
(* utils.cpp                                                               *)
(***************************************************************************)
water_time_decode_signed_NoClamp(i) == (i - 120) * 5

\* decode an 8-bit unsigned byte (0 to 240) to a signed water time (-600 to 600)
water_time_decode_signed(i) ==
    LET c == IF i > 240 THEN 240 ELSE i
    IN  (c - 120) * 5

\* encode a signed water time (-600 to 600) to an unsigned byte (0 to 240)
water_time_encode_signed(i) ==
    LET a == IF i > 600 THEN 600 ELSE i
        b == IF a < -600 THEN -600 ELSE a
    IN  (b + 600) \div 5

\* An unsigned long of the given number of bits is the sequence of its
\* 16-bit digits, the lowest first.  ULong converts a signed number as C
\* does: modulo 2^bits.
RECURSIVE Digit16(_, _)
Digit16(x, k) == IF k = 1 THEN x % 65536 ELSE Digit16(x \div 65536, k - 1)

ULong(x, bits) == [k \in 1 .. (bits \div 16) |-> Digit16(x, k)]

\* whether an unsigned long is below 2^31, and its value if it is
ULongFits(d) == d[2] < 32768 /\ \A k \in 3 .. Len(d) : d[k] = 0

ULongValue(d) == d[1] + 65536 * d[2]

\* the product of an unsigned long and a byte, modulo 2^bits
RECURSIVE ULongMulFrom(_, _, _, _)
ULongMulFrom(d, k, i, carry) ==
    IF i > Len(d) THEN <<>>
    ELSE <<(d[i] * k + carry) % 65536>> \o
         ULongMulFrom(d, k, i + 1, (d[i] * k + carry) \div 65536)

ULongMul(d, k) == ULongMulFrom(d, k, 1, 0)

\* the quotient of an unsigned long by a byte; i runs from the highest digit
RECURSIVE ULongDivFrom(_, _, _, _)
ULongDivFrom(d, k, i, rem) ==
    IF i < 1 THEN <<>>
    ELSE ULongDivFrom(d, k, i - 1, (rem * 65536 + d[i]) % k) \o
         <<(rem * 65536 + d[i]) \div k>>

ULongDiv(d, k) == ULongDivFrom(d, k, Len(d), 0)

\* 65534: sunrise to sunset duration, 65535: sunset to sunrise duration
water_time_resolve(v, sunrise, sunset, bits) ==
    IF v = 65534 THEN ULong((sunset - sunrise) * 60, bits)
    ELSE IF v = 65535 THEN ULong((sunrise + 1440 - sunset) * 60, bits)
    ELSE ULong(v, bits)

(***************************************************************************)
(* The runtime queue (ProgramData).  A runtime state rt is a record        *)
(*   queue, nqueue, station_qid, last_seq_stop_time, lastrun  (pd)         *)
(*   station_bits, program_busy, mas, mas2                    (os)         *)
(***************************************************************************)
EmptyEntry == [sid |-> 0, pid |-> 0, st |-> 0, dur |-> 0]
NoRun == [station |-> 0, program |-> 0, duration |-> 0, endtime |-> 0]

\* appends an element; the queue is unchanged when it is full
enqueue(rt, e) ==
    IF rt.nqueue < QSize
    THEN [rt EXCEPT !.queue[rt.nqueue] = e, !.nqueue = @ + 1]
    ELSE rt

\* removes by index: the last element fills the space, and the side map of
\* the moved element follows it
dequeue(rt, qid) ==
    IF qid >= rt.nqueue THEN rt
    ELSE LET last == rt.nqueue - 1
             moved == rt.queue[last]
         IN  IF qid < last
             THEN [rt EXCEPT !.queue[qid] = moved,
                             !.station_qid[moved.sid] =
                                 IF @ = last THEN qid ELSE @,
                             !.nqueue = last]
             ELSE [rt EXCEPT !.nqueue = last]

\* clears all entries, the side map and the last sequential stop time
reset_runtime(rt) ==
    [rt EXCEPT !.queue = [i \in Slots |-> EmptyEntry],
               !.nqueue = 0,
               !.station_qid = [s \in Stations |-> NoQid],
               !.last_seq_stop_time = 0]

(***************************************************************************)
(* OpenSprinkler.cpp: station bits                                         *)
(***************************************************************************)
\* the return value of set_station_bit: 0 no change, 1 set, 255 cleared
set_station_bit_ret(bits, sid, value) ==
    IF value # 0
    THEN (IF bits[sid] = 1 THEN 0 ELSE 1)
    ELSE (IF bits[sid] = 0 THEN 0 ELSE 255)

set_station_bit(bits, sid, value) ==
    IF value # 0
    THEN (IF bits[sid] = 1 THEN bits ELSE [bits EXCEPT ![sid] = 1])
    ELSE (IF bits[sid] = 0 THEN bits ELSE [bits EXCEPT ![sid] = 0])

\* the loop over the stations of the engine; the loop over the whole array
\* and one index more is ClearAllStationBits
RECURSIVE ClearBitsFrom(_, _)
ClearBitsFrom(bits, sid) ==
    IF sid >= NumStations THEN bits
    ELSE ClearBitsFrom(set_station_bit(bits, sid, 0), sid + 1)

clear_all_station_bits(bits) == ClearBitsFrom(bits, 0)

(***************************************************************************)
(* main.cpp: the scheduler                                                 *)
(***************************************************************************)
\* one step of the scheduler's loop over the queue: acc carries the queue,
\* the two running start times and the busy bit
SchedEntry_NoDelay(acc, i, station_delay, seq, re) ==
    LET q == acc.queue[i]
    IN  IF q.st # 0 \/ q.dur = 0 THEN acc
        ELSE IF q.sid \in seq /\ re = 0
        THEN [acc EXCEPT !.queue[i].st = acc.seq_start_time,
                         !.seq_start_time = @ + q.dur,
                         !.program_busy = 1]
        ELSE [acc EXCEPT !.queue[i].st = acc.con_start_time,
                         !.con_start_time = @ + 1,
                         !.program_busy = 1]

SchedEntry_NoSkip(acc, i, station_delay, seq, re) ==
    LET q == acc.queue[i]
    IN  IF q.dur = 0 THEN acc
        ELSE IF q.sid \in seq /\ re = 0
        THEN [acc EXCEPT !.queue[i].st = acc.seq_start_time,
                         !.seq_start_time = @ + q.dur + station_delay,
                         !.program_busy = 1]
        ELSE [acc EXCEPT !.queue[i].st = acc.con_start_time,
                         !.con_start_time = @ + 1,
                         !.program_busy = 1]

SchedEntry(acc, i, station_delay, seq, re) ==
    LET q == acc.queue[i]
    IN  IF q.st # 0 \/ q.dur = 0 THEN acc
        ELSE IF q.sid \in seq /\ re = 0
        THEN [acc EXCEPT !.queue[i].st = acc.seq_start_time,
                         !.seq_start_time = @ + q.dur + station_delay,
                         !.program_busy = 1]
        ELSE [acc EXCEPT !.queue[i].st = acc.con_start_time,
                         !.con_start_time = @ + 1,
                         !.program_busy = 1]

RECURSIVE SchedLoop(_, _, _, _, _, _)
SchedLoop(acc, i, n, station_delay, seq, re) ==
    IF i >= n THEN acc
    ELSE SchedLoop(SchedEntry(acc, i, station_delay, seq, re),
                   i + 1, n, station_delay, seq, re)

\* a starting point whose concurrent start time is the current second
SchedStart_ConAtNow(rt, curr_time, station_delay) ==
    [queue |-> rt.queue,
     con_start_time |-> curr_time,
     seq_start_time |-> IF rt.last_seq_stop_time > curr_time
                        THEN rt.last_seq_stop_time + station_delay
                        ELSE curr_time + 1,
     program_busy |-> rt.program_busy]

\* the loop's starting point: the concurrent and the sequential start time
SchedStart(rt, curr_time, station_delay) ==
    [queue |-> rt.queue,
     con_start_time |-> curr_time + 1,
     seq_start_time |-> IF rt.last_seq_stop_time > curr_time
                        THEN rt.last_seq_stop_time + station_delay
                        ELSE curr_time + 1,
     program_busy |-> rt.program_busy]

SchedResult(rt, acc) ==
    [rt EXCEPT !.queue = acc.queue, !.program_busy = acc.program_busy]

\* schedule_all_stations(curr_time): sdt is iopts[IOPT_STATION_DELAY_TIME],
\* re is iopts[IOPT_REMOTE_EXT_MODE], seq the stations with the sequential
\* attribute
schedule_all_stations(rt, curr_time, sdt, re, seq) ==
    SchedResult(rt,
        SchedLoop(SchedStart(rt, curr_time, water_time_decode_signed(sdt)),
                  0, rt.nqueue, water_time_decode_signed(sdt), seq, re))

(***************************************************************************)
(* main.cpp: turning stations on and off                                   *)
(***************************************************************************)
\* push_message(NOTIFY_STATION_ON, sid) or push_message(NOTIFY_STATION_OFF,
\* sid, duration) with the station log record: notified is the last message
\* of each station, misordered the stations that had two messages of one
\* kind in a row or an off first, logged the sum of the durations logged;
\* followed is the set of stations whose messages are kept
Notify(rt, sid, kind, duration) ==
    IF sid \notin rt.followed THEN rt
    ELSE
    [rt EXCEPT !.notified[sid] = kind,
               !.misordered = IF rt.notified[sid] = kind
                                 \/ (kind = "off" /\ rt.notified[sid] = "none")
                              THEN @ \cup {sid} ELSE @,
               !.logged[sid] = @ + duration]

turn_on_station(rt, sid) ==
    IF set_station_bit_ret(rt.station_bits, sid, 1) # 0
    THEN Notify([rt EXCEPT !.station_bits = set_station_bit(@, sid, 1)],
                sid, "on", 0)
    ELSE [rt EXCEPT !.station_bits = set_station_bit(@, sid, 1)]

\* a last run recorded from the start time on, not after it
RecordLastRun_AtStart(rt, sid, q, curr_time) ==
    IF curr_time >= q.st /\ rt.mas # sid + 1 /\ rt.mas2 # sid + 1
    THEN Notify([rt EXCEPT !.lastrun = [station |-> sid, program |-> q.pid,
                                        duration |-> curr_time - q.st,
                                        endtime |-> curr_time]],
                sid, "off", curr_time - q.st)
    ELSE rt

\* pd.lastrun: recorded for a station that has started and is no master
RecordLastRun(rt, sid, q, curr_time) ==
    IF curr_time > q.st /\ rt.mas # sid + 1 /\ rt.mas2 # sid + 1
    THEN Notify([rt EXCEPT !.lastrun = [station |-> sid, program |-> q.pid,
                                        duration |-> curr_time - q.st,
                                        endtime |-> curr_time]],
                sid, "off", curr_time - q.st)
    ELSE rt

\* the part of turn_off_station after the bit is cleared
TurnOffQueued(rt, sid, qid, curr_time) ==
    IF qid >= rt.nqueue THEN rt
    ELSE [dequeue(RecordLastRun(rt, sid, rt.queue[qid], curr_time), qid)
             EXCEPT !.station_qid[sid] = NoQid]

\* clears the bit; when the station owns a queue element, records the last
\* run and dequeues the element
turn_off_station(rt, sid, curr_time) ==
    TurnOffQueued([rt EXCEPT !.station_bits = set_station_bit(@, sid, 0)],
                  sid, rt.station_qid[sid], curr_time)

(***************************************************************************)
(* main.cpp: dynamic events.  dyn is the record of what the pass reads:    *)
(*   en, rd, sn1, sn2 (booleans), igs, igs2, igrd (sets of stations)       *)
(***************************************************************************)
OffIf(cond, rt, sid, curr_time) ==
    IF cond THEN turn_off_station(rt, sid, curr_time) ELSE rt

\* a station's pass that does not exempt the entries of manual starts
DynStation_NoExemption(rt, sid, curr_time, dyn) ==
    IF rt.mas = sid + 1 \/ rt.mas2 = sid + 1 THEN rt
    ELSE IF rt.station_qid[sid] = NoQid THEN rt
    ELSE OffIf(dyn.sn2 /\ sid \notin dyn.igs2,
           OffIf(dyn.sn1 /\ sid \notin dyn.igs,
             OffIf(dyn.rd /\ sid \notin dyn.igrd,
               OffIf(~dyn.en, rt, sid, curr_time),
               sid, curr_time),
             sid, curr_time),
           sid, curr_time)

DynStation(rt, sid, curr_time, dyn) ==
    IF rt.mas = sid + 1 \/ rt.mas2 = sid + 1 THEN rt
    ELSE IF rt.station_qid[sid] = NoQid THEN rt
    ELSE IF rt.queue[rt.station_qid[sid]].pid >= FirstManualPid THEN rt
    ELSE OffIf(dyn.sn2 /\ sid \notin dyn.igs2,
           OffIf(dyn.sn1 /\ sid \notin dyn.igs,
             OffIf(dyn.rd /\ sid \notin dyn.igrd,
               OffIf(~dyn.en, rt, sid, curr_time),
               sid, curr_time),
             sid, curr_time),
           sid, curr_time)

RECURSIVE DynLoop(_, _, _, _)
DynLoop(rt, sid, curr_time, dyn) ==
    IF sid >= NumStations THEN rt
    ELSE DynLoop(DynStation(rt, sid, curr_time, dyn), sid + 1, curr_time, dyn)

process_dynamic_events(rt, curr_time, dyn) == DynLoop(rt, 0, curr_time, dyn)

(***************************************************************************)
(* main.cpp, do_loop: run program data                                     *)
(***************************************************************************)
\* assign queue elements to stations: an element takes the station unless
\* the station's element has an earlier start time
AssignQid(rt, qid) ==
    LET q == rt.queue[qid]
        sqi == rt.station_qid[q.sid]
    IN  IF sqi < NoQid /\ rt.queue[sqi].st < q.st THEN rt
        ELSE [rt EXCEPT !.station_qid[q.sid] = qid]

RECURSIVE AssignLoop(_, _)
AssignLoop(rt, qid) ==
    IF qid >= rt.nqueue THEN rt
    ELSE AssignLoop(AssignQid(rt, qid), qid + 1)

StationOff_Late(rt, sid, q, curr_time) ==
    IF q.st > 0 /\ curr_time > q.st + q.dur
    THEN turn_off_station(rt, sid, curr_time) ELSE rt

\* check if this station should be turned off: q is its queue element
StationOff(rt, sid, q, curr_time) ==
    IF q.st > 0 /\ curr_time >= q.st + q.dur
    THEN turn_off_station(rt, sid, curr_time) ELSE rt

\* check if this station should be turned on: q is what the same queue slot
\* holds now
StationOn(rt, sid, q, bitvalue, curr_time) ==
    IF bitvalue[sid] = 0 /\ curr_time >= q.st /\ curr_time < q.st + q.dur
    THEN turn_on_station(rt, sid) ELSE rt

StationSlot(rt, sid, slot, bitvalue, curr_time) ==
    StationOn(rt, sid, rt.queue[slot], bitvalue, curr_time)

\* time keeping of one station; bitvalue is the board's bits as they were
\* when the loop reached the board, and q stays the same queue slot across
\* the call of turn_off_station
StationStep(rt, sid, bitvalue, curr_time) ==
    IF rt.mas = sid + 1 \/ rt.mas2 = sid + 1 THEN rt
    ELSE IF rt.station_qid[sid] = NoQid THEN rt
    ELSE StationSlot(StationOff(rt, sid, rt.queue[rt.station_qid[sid]], curr_time),
                     sid, rt.station_qid[sid], bitvalue, curr_time)

RECURSIVE StationLoop(_, _, _, _)
StationLoop(rt, sid, bitvalue, curr_time) ==
    IF sid >= NumStations THEN rt
    ELSE StationLoop(
             StationStep(rt, sid,
                 IF sid % 8 = 0 THEN rt.station_bits ELSE bitvalue, curr_time),
             sid + 1,
             IF sid % 8 = 0 THEN rt.station_bits ELSE bitvalue, curr_time)

\* clear up elements marked for removal, highest index first
CleanupStep(rt, qi, curr_time) ==
    LET q == rt.queue[qi]
    IN  IF q.dur = 0 \/ curr_time >= q.st + q.dur THEN dequeue(rt, qi) ELSE rt

RECURSIVE CleanupLoop(_, _, _)
CleanupLoop(rt, qi, curr_time) ==
    IF qi < 0 THEN rt
    ELSE CleanupLoop(CleanupStep(rt, qi, curr_time), qi - 1, curr_time)

\* the last stop time of the queued sequential stations
LastSeqStop(rt, curr_time, re, seq) ==
    LET stops == {rt.queue[i].st + rt.queue[i].dur : i \in
                     {j \in 0 .. (rt.nqueue - 1) :
                         /\ rt.queue[j].st + rt.queue[j].dur > curr_time
                         /\ rt.queue[j].sid \in seq
                         /\ re = 0}}
    IN  IF stops = {} THEN 0 ELSE CHOOSE m \in stops : \A x \in stops : x <= m

\* a drain that leaves the station bits as they are
DrainIfEmpty_KeepBits(rt, iopt_mas, iopt_mas2) ==
    IF rt.nqueue # 0 THEN rt
    ELSE [reset_runtime(rt)
             EXCEPT !.program_busy = 0, !.mas = iopt_mas, !.mas2 = iopt_mas2]

DrainIfEmpty_KeepBusy(rt, iopt_mas, iopt_mas2) ==
    IF rt.nqueue # 0 THEN rt
    ELSE [reset_runtime([rt EXCEPT !.station_bits = clear_all_station_bits(@)])
             EXCEPT !.mas = iopt_mas, !.mas2 = iopt_mas2]

\* the runtime queue is empty: reset all stations
DrainIfEmpty(rt, iopt_mas, iopt_mas2) ==
    IF rt.nqueue # 0 THEN rt
    ELSE [reset_runtime([rt EXCEPT !.station_bits = clear_all_station_bits(@)])
             EXCEPT !.program_busy = 0, !.mas = iopt_mas, !.mas2 = iopt_mas2]

RunStations(rt, curr_time) == StationLoop(rt, 0, rt.station_bits, curr_time)

RunCleanup(rt, curr_time) == CleanupLoop(rt, rt.nqueue - 1, curr_time)

SetLastSeqStop(rt, curr_time, re, seq) ==
    [rt EXCEPT !.last_seq_stop_time = LastSeqStop(rt, curr_time, re, seq)]

RunProgramData(rt, curr_time, dyn, opts, seq) ==
    IF rt.program_busy = 0 THEN rt
    ELSE DrainIfEmpty(
             SetLastSeqStop(
                 process_dynamic_events(
                     RunCleanup(RunStations(AssignLoop(rt, 0), curr_time),
                                curr_time),
                     curr_time, dyn),
                 curr_time, opts.IOPT_REMOTE_EXT_MODE, seq),
             opts.IOPT_MASTER_STATION, opts.IOPT_MASTER_STATION_2)

(***************************************************************************)
(* main.cpp, do_loop: master stations                                      *)
(***************************************************************************)
\* curr_time >= q->st + on_adj && curr_time <= q->st + q->dur + off_adj,
\* the sums being unsigned: a sum below zero wraps to a time far ahead
MasterWindow(q, on_adj, off_adj, curr_time) ==
    /\ q.st + on_adj >= 0 /\ curr_time >= q.st + on_adj
    /\ (q.st + q.dur + off_adj < 0 \/ curr_time <= q.st + q.dur + off_adj)

\* a running station that activates the master and has no queue element
\* makes the loop read pd.queue[255], beyond the queue
MasterReadsBeyond(rt, m, uses) ==
    \E sid \in Stations :
        /\ m # sid + 1
        /\ rt.station_bits[sid] = 1 /\ sid \in uses
        /\ rt.station_qid[sid] = NoQid

\* masbit: beyond is what the comparison on the bytes read beyond the queue
\* makes of them
MasterBit(rt, m, uses, on_adj, off_adj, curr_time, beyond) ==
    IF \E sid \in Stations :
          /\ m # sid + 1
          /\ rt.station_bits[sid] = 1 /\ sid \in uses
          /\ IF rt.station_qid[sid] = NoQid THEN beyond
             ELSE MasterWindow(rt.queue[rt.station_qid[sid]],
                               on_adj, off_adj, curr_time)
    THEN 1 ELSE 0

HandleMaster(rt, m, uses, on_adj_enc, off_adj_enc, curr_time, beyond) ==
    IF m > 0
    THEN [rt EXCEPT !.station_bits =
             set_station_bit(@, m - 1,
                 MasterBit(rt, m, uses, water_time_decode_signed(on_adj_enc),
                           water_time_decode_signed(off_adj_enc),
                           curr_time, beyond))]
    ELSE rt

(***************************************************************************)
(* Programs.  A program is a record name, enabled, use_weather, durations  *)
(* and starts, the minutes of the wall clock its schedule matches.         *)
(***************************************************************************)
StartsWith(name, prefix) ==
    Len(name) >= Len(prefix) /\ SubSeq(name, 1, Len(prefix)) = prefix

NameReboot == <<":", ">", "r", "e", "b", "o", "o", "t">>
NameRebootNow == NameReboot \o <<"_", "n", "o", "w">>
NameWater == <<"w">>

check_match(prog, t) == prog.enabled = 1 /\ (t \div 60) \in prog.starts

\* a command check that tests for ":>reboot" first
process_special_program_command_ShortFirst(rt, pname, curr_time) ==
    IF Len(pname) > 0 /\ pname[1] = ":" /\ StartsWith(pname, NameReboot)
    THEN [rt |-> [rt EXCEPT !.safe_reboot = 1,
                            !.reboot_timer = curr_time + RebootDelay],
          special |-> TRUE]
    ELSE IF Len(pname) > 0 /\ pname[1] = ":" /\ StartsWith(pname, NameRebootNow)
    THEN [rt |-> [rt EXCEPT !.safe_reboot = 0,
                            !.reboot_timer = curr_time + RebootDelay],
          special |-> TRUE]
    ELSE [rt |-> rt, special |-> FALSE]

\* returns the runtime state and whether the name was a special command
process_special_program_command(rt, pname, curr_time) ==
    IF Len(pname) > 0 /\ pname[1] = ":" /\ StartsWith(pname, NameRebootNow)
    THEN [rt |-> [rt EXCEPT !.safe_reboot = 0,
                            !.reboot_timer = curr_time + RebootDelay],
          special |-> TRUE]
    ELSE IF Len(pname) > 0 /\ pname[1] = ":" /\ StartsWith(pname, NameReboot)
    THEN [rt |-> [rt EXCEPT !.safe_reboot = 1,
                            !.reboot_timer = curr_time + RebootDelay],
          special |-> TRUE]
    ELSE [rt |-> rt, special |-> FALSE]

(***************************************************************************)
(* main.cpp, do_loop: the program matching pass.  acc is the record rt,    *)
(* match_found, and shared: whether the pass enqueued a station that had   *)
(* a queue entry already.                                                  *)
(***************************************************************************)
\* the water time of a station of a matched program as an unsigned long:
\* scaled by the watering percentage when the program uses weather
ScaledULong(prog, sid, wl, nv, bits) ==
    IF prog.use_weather = 1
    THEN (IF /\ wl < 20
             /\ ULongFits(ULongDiv(ULongMul(
                     water_time_resolve(prog.durations[sid], nv.sunrise_time,
                                        nv.sunset_time, bits), wl), 100))
             /\ ULongValue(ULongDiv(ULongMul(
                     water_time_resolve(prog.durations[sid], nv.sunrise_time,
                                        nv.sunset_time, bits), wl), 100)) < 10
          THEN ULong(0, bits)
          ELSE ULongDiv(ULongMul(
                   water_time_resolve(prog.durations[sid], nv.sunrise_time,
                                      nv.sunset_time, bits), wl), 100))
    ELSE water_time_resolve(prog.durations[sid], nv.sunrise_time,
                            nv.sunset_time, bits)

ScaledWaterTime(prog, sid, wl, nv) ==
    ULongValue(ScaledULong(prog, sid, wl, nv, ULongBits))

MatchStation_Overwrite(acc, prog, pid, sid, wl, nv, dis) ==
    IF acc.rt.mas = sid + 1 \/ acc.rt.mas2 = sid + 1 THEN acc
    ELSE IF prog.durations[sid] # 0 /\ sid \notin dis
    THEN LET water_time == ScaledWaterTime(prog, sid, wl, nv)
         IN  IF water_time # 0
             THEN [acc EXCEPT !.rt = IF @.nqueue < QSize
                                     THEN enqueue(@, [sid |-> sid,
                                                      pid |-> pid + 1,
                                                      st |-> 0,
                                                      dur |-> water_time])
                                     ELSE [@ EXCEPT !.queue[QSize - 1] =
                                               [sid |-> sid, pid |-> pid + 1,
                                                st |-> 0, dur |-> water_time]],
                              !.match_found = TRUE,
                              !.shared = @ \/ \E i \in Slots :
                                  /\ i < acc.rt.nqueue
                                  /\ acc.rt.queue[i].sid = sid]
             ELSE acc
    ELSE acc

MatchStation(acc, prog, pid, sid, wl, nv, dis) ==
    IF acc.rt.mas = sid + 1 \/ acc.rt.mas2 = sid + 1 THEN acc
    ELSE IF prog.durations[sid] # 0 /\ sid \notin dis
    THEN LET water_time == ScaledWaterTime(prog, sid, wl, nv)
         IN  IF water_time # 0 /\ acc.rt.nqueue < QSize
             THEN [acc EXCEPT !.rt = enqueue(@, [sid |-> sid, pid |-> pid + 1,
                                                 st |-> 0, dur |-> water_time]),
                              !.match_found = TRUE,
                              !.shared = @ \/ \E i \in Slots :
                                  /\ i < acc.rt.nqueue
                                  /\ acc.rt.queue[i].sid = sid]
             ELSE acc
    ELSE acc

RECURSIVE MatchStations(_, _, _, _, _, _, _)
MatchStations(acc, prog, pid, sid, wl, nv, dis) ==
    IF sid >= NumStations THEN acc
    ELSE MatchStations(MatchStation(acc, prog, pid, sid, wl, nv, dis),
                       prog, pid, sid + 1, wl, nv, dis)

\* push_message(NOTIFY_PROGRAM_SCHED, pid, ...) after the stations of a
\* matching program: sched is the sequence of the pids it was sent for
ProgramSched(acc, pid) ==
    IF acc.match_found THEN [acc EXCEPT !.sched = Append(@, pid)] ELSE acc

MatchProgram(acc, prog, pid, curr_time, wl, nv, dis) ==
    IF ~check_match(prog, curr_time) THEN acc
    ELSE LET sp == process_special_program_command(acc.rt, prog.name, curr_time)
         IN  IF sp.special THEN [acc EXCEPT !.rt = sp.rt]
             ELSE ProgramSched(MatchStations(acc, prog, pid, 0, wl, nv, dis),
                               pid)

RECURSIVE MatchPrograms(_, _, _, _, _, _, _)
MatchPrograms(acc, ps, pid, curr_time, wl, nv, dis) ==
    IF pid >= Len(ps) THEN acc
    ELSE MatchPrograms(MatchProgram(acc, ps[pid + 1], pid, curr_time, wl, nv, dis),
                       ps, pid + 1, curr_time, wl, nv, dis)

\* the pass before the first program: bool match_found = false
MatchAcc(rt) ==
    [rt |-> rt, match_found |-> FALSE, shared |-> FALSE, sched |-> <<>>]

\* calculate start and end times when some station was enqueued
ScheduleIfFound(acc, curr_time, opts, att) ==
    IF acc.match_found
    THEN schedule_all_stations(acc.rt, curr_time, opts.IOPT_STATION_DELAY_TIME,
                               opts.IOPT_REMOTE_EXT_MODE, att.seq)
    ELSE acc.rt

\* the pass of one minute: enqueue, then calculate start and end times
MatchPass(rt, ps, curr_time, opts, nv, att) ==
    ScheduleIfFound(
        MatchPrograms(MatchAcc(rt), ps, 0,
                      curr_time, opts.IOPT_WATER_PERCENTAGE, nv, att.dis),
        curr_time, opts, att)

\* whether the pass enqueues a station that has a queue entry already
MatchShares(rt, ps, curr_time, opts, nv, att) ==
    MatchPrograms(MatchAcc(rt), ps, 0,
                  curr_time, opts.IOPT_WATER_PERCENTAGE, nv, att.dis).shared

\* the programs the pass sent PROGRAM_SCHED for
MatchSched(rt, ps, curr_time, opts, nv, att) ==
    MatchPrograms(MatchAcc(rt), ps, 0,
                  curr_time, opts.IOPT_WATER_PERCENTAGE, nv, att.dis).sched

(***************************************************************************)
(* main.cpp: manual start                                                  *)
(***************************************************************************)
reset_all_stations_immediate_KeepQueue(rt) ==
    [rt EXCEPT !.station_bits = clear_all_station_bits(@)]

reset_all_stations_immediate(rt) ==
    reset_runtime([rt EXCEPT !.station_bits = clear_all_station_bits(@)])

ManualDur(ps, pid, sid, uwt, wl, nv) ==
    LET dur == IF pid = 255 THEN 2
               ELSE IF pid > 0
               THEN ULongValue(water_time_resolve(ps[pid].durations[sid],
                                                  nv.sunrise_time,
                                                  nv.sunset_time, ULongBits))
               ELSE 60
    IN  IF uwt # 0 THEN (dur * wl) \div 100 ELSE dur

ManualStation(acc, ps, pid, sid, uwt, wl, nv, dis) ==
    IF acc.rt.mas = sid + 1 \/ acc.rt.mas2 = sid + 1 THEN acc
    ELSE LET dur == ManualDur(ps, pid, sid, uwt, wl, nv)
         IN  IF dur > 0 /\ sid \notin dis /\ acc.rt.nqueue < QSize
             THEN [acc EXCEPT !.rt = enqueue(@, [sid |-> sid, pid |-> ManualPid,
                                                 st |-> 0, dur |-> dur]),
                              !.match_found = TRUE]
             ELSE acc

RECURSIVE ManualStations(_, _, _, _, _, _, _, _)
ManualStations(acc, ps, pid, sid, uwt, wl, nv, dis) ==
    IF sid >= NumStations THEN acc
    ELSE ManualStations(ManualStation(acc, ps, pid, sid, uwt, wl, nv, dis),
                        ps, pid, sid + 1, uwt, wl, nv, dis)

manual_start_program(rt, ps, pid, uwt, now_tz, opts, nv, att) ==
    ScheduleIfFound(
        ManualStations([rt |-> reset_all_stations_immediate(rt),
                        match_found |-> FALSE],
                       ps, pid, 0, uwt, opts.IOPT_WATER_PERCENTAGE, nv, att.dis),
        now_tz, opts, att)

(***************************************************************************)
(* OpenSprinkler.cpp: sensors.  A sensor is a record raw, active,          *)
(* on_timer, off_timer, hist.                                              *)
(***************************************************************************)
IsBinarySensor(type) == type = SENSOR_TYPE_RAIN \/ type = SENSOR_TYPE_SOIL

SensorDelay_NoFloor(minutes) == minutes * 60

\* add minimum of 5 seconds on delay
SensorDelay(minutes) == IF minutes * 60 > 5 THEN minutes * 60 ELSE 5

detect_binarysensor_AtTimer(sn, type, option, on_delay, off_delay, val, curr_time) ==
    IF ~IsBinarySensor(type) THEN sn
    ELSE IF val # option
    THEN (IF sn.on_timer = 0
          THEN [sn EXCEPT !.raw = 1, !.off_timer = 0,
                          !.on_timer = curr_time + SensorDelay(on_delay)]
          ELSE IF curr_time >= sn.on_timer
          THEN [sn EXCEPT !.raw = 1, !.active = 1]
          ELSE [sn EXCEPT !.raw = 1])
    ELSE (IF sn.off_timer = 0
          THEN [sn EXCEPT !.raw = 0, !.on_timer = 0,
                          !.off_timer = curr_time + SensorDelay(off_delay)]
          ELSE IF curr_time > sn.off_timer
          THEN [sn EXCEPT !.raw = 0, !.active = 0]
          ELSE [sn EXCEPT !.raw = 0])

\* detect_binarysensor_status for one sensor; val is the pin as read
detect_binarysensor(sn, type, option, on_delay, off_delay, val, curr_time) ==
    IF ~IsBinarySensor(type) THEN sn
    ELSE IF val # option
    THEN (IF sn.on_timer = 0
          THEN [sn EXCEPT !.raw = 1, !.off_timer = 0,
                          !.on_timer = curr_time + SensorDelay(on_delay)]
          ELSE IF curr_time > sn.on_timer
          THEN [sn EXCEPT !.raw = 1, !.active = 1]
          ELSE [sn EXCEPT !.raw = 1])
    ELSE (IF sn.off_timer = 0
          THEN [sn EXCEPT !.raw = 0, !.on_timer = 0,
                          !.off_timer = curr_time + SensorDelay(off_delay)]
          ELSE IF curr_time > sn.off_timer
          THEN [sn EXCEPT !.raw = 0, !.active = 0]
          ELSE [sn EXCEPT !.raw = 0])

\* detect_programswitch_status for one sensor: the sensor with its history
\* shifted, and whether the switch fired
\* the raw samples of a program switch lane kept for observation, and the
\* ticks since its last trigger, counted up to SwitchGap
SwitchGap == 4

SamplesStep(samples, type, option, val) ==
    IF type # SENSOR_TYPE_PSWITCH THEN samples
    ELSE LET all == Append(samples, IF val # option THEN 1 ELSE 0)
         IN  IF Len(all) > SwitchGap THEN Tail(all) ELSE all

GapStep(gap, type, fired) ==
    IF type # SENSOR_TYPE_PSWITCH THEN gap
    ELSE IF fired THEN 0
    ELSE IF gap < SwitchGap THEN gap + 1 ELSE gap

\* a program switch without the noise filter: one low, then one high
detect_programswitch_NoFilter(sn, type, option, val) ==
    IF type # SENSOR_TYPE_PSWITCH THEN [sn |-> sn, fired |-> FALSE]
    ELSE LET raw == IF val # option THEN 1 ELSE 0
             hist == (sn.hist * 2 + raw) % 256
         IN  [sn |-> [sn EXCEPT !.raw = raw, !.hist = hist],
              fired |-> (hist % 4 = 1)]

detect_programswitch(sn, type, option, val) ==
    IF type # SENSOR_TYPE_PSWITCH THEN [sn |-> sn, fired |-> FALSE]
    ELSE LET raw == IF val # option THEN 1 ELSE 0
             hist == (sn.hist * 2 + raw) % 256
         IN  [sn |-> [sn EXCEPT !.raw = raw, !.hist = hist],
              fired |-> (hist % 16 = 3)]

\* the values the pin can read as: it is only read for a sensor in use
PinValues(type) ==
    IF IsBinarySensor(type) \/ type = SENSOR_TYPE_PSWITCH THEN {0, 1} ELSE {0}

SensorOff == [raw |-> 0, active |-> 0, on_timer |-> 0, off_timer |-> 0, hist |-> 0]

(***************************************************************************)
(* OpenSprinkler.cpp: the options at boot.  f is the record of the data    *)
(* files and of what the setup did.                                        *)
(***************************************************************************)
DataFiles ==
    {"iopts.dat", "sopts.dat", "stns.dat", "nvcon.dat", "prog.dat", "done.dat"}

\* utils.cpp: a byte of a file, 0 when the file cannot be opened
file_read_byte(exists, byte) == IF exists THEN byte ELSE 0

nvdata_save(f, cause) ==
    [f EXCEPT !.cause = cause, !.written = @ \cup {"nvcon.dat"}]

\* the writes of factory_reset, in the order of the code
ResetSteps ==
    <<"iopts.dat", "sopts.dat", "stns.dat", "nvcon.dat", "prog.dat", "done.dat">>

\* the k-th write of factory_reset; the options in memory are the defaults,
\* with the version of the build, and iopts_save writes them first
factory_reset_step(f, k) ==
    LET g == [f EXCEPT !.written = @ \cup {ResetSteps[k]}]
    IN  CASE k = 1 -> [g EXCEPT !.iopts = TRUE,
                                !.fw = OS_FW_VERSION,
                                !.ram_fw = OS_FW_VERSION]
          [] k = 3 -> [g EXCEPT !.loaded = {"attribs"}]
          [] k = 4 -> [nvdata_save(g, REBOOT_CAUSE_RESET)
                          EXCEPT !.last_reboot_cause = REBOOT_CAUSE_RESET]
          [] k = 6 -> [g EXCEPT !.done = TRUE, !.pending = "none"]
          [] OTHER -> g

\* factory_reset as far as its n-th write
RECURSIVE FactoryResetUpTo(_, _)
FactoryResetUpTo(f, n) ==
    IF n = 0
    THEN [f EXCEPT !.reset = TRUE]
    ELSE factory_reset_step(FactoryResetUpTo(f, n - 1), n)

factory_reset(f) == FactoryResetUpTo(f, Len(ResetSteps))

\* iopts_load, nvdata_load, nvdata_save, attribs_load
OptionsLoad(f) ==
    [nvdata_save(f, REBOOT_CAUSE_POWERON)
        EXCEPT !.ram_fw = OS_FW_VERSION,
               !.loaded = {"iopts", "nvdata", "attribs"},
               !.last_reboot_cause = f.cause,
               !.reset = FALSE]

options_setup_AnyMismatch(f) ==
    IF file_read_byte(f.iopts, f.fw) # OS_FW_VERSION \/ ~f.done
    THEN factory_reset(f)
    ELSE OptionsLoad(f)

options_setup(f) ==
    IF file_read_byte(f.iopts, f.fw) < FwVersionValid \/ ~f.done
    THEN factory_reset(f)
    ELSE OptionsLoad(f)

(***************************************************************************)
(* main.cpp: the flow sensor.  f is the record of flow_poll's variables,   *)
(* curr_flow_state the pin as read, curr the value of millis().            *)
(***************************************************************************)
\* the part of flow_poll that a falling edge reaches
FlowPulse_BeginAtThird(f, curr) ==
    LET start == IF f.flow_start = 0 THEN curr ELSE f.flow_start
        gallons == IF f.flow_start = 0 THEN 0 ELSE f.flow_gallons
    IN  [f EXCEPT !.flow_start = start,
                  !.flow_begin = IF curr - start >= FlowWait /\ gallons = 2
                                 THEN curr ELSE @,
                  !.flow_stop = curr,
                  !.flow_gallons = IF curr - start < FlowWait
                                   THEN 1 ELSE gallons + 1]

FlowPulse(f, curr) ==
    LET start == IF f.flow_start = 0 THEN curr ELSE f.flow_start
        gallons == IF f.flow_start = 0 THEN 0 ELSE f.flow_gallons
    IN  [f EXCEPT !.flow_start = start,
                  !.flow_begin = IF curr - start >= FlowWait /\ gallons = 1
                                 THEN curr ELSE @,
                  !.flow_stop = curr,
                  !.flow_gallons = IF curr - start < FlowWait
                                   THEN 1 ELSE gallons + 1]

\* flow_poll recording on every change of the pin
flow_poll_AnyEdge(f, curr_flow_state, curr) ==
    IF f.prev_flow_state = curr_flow_state
    THEN f
    ELSE FlowPulse([f EXCEPT !.prev_flow_state = curr_flow_state,
                             !.flow_count = @ + 1,
                             !.pulses = Append(@, curr)], curr)

\* only record on falling edge
flow_poll(f, curr_flow_state, curr) ==
    IF ~(f.prev_flow_state = 1 /\ curr_flow_state = 0)
    THEN [f EXCEPT !.prev_flow_state = curr_flow_state]
    ELSE FlowPulse([f EXCEPT !.prev_flow_state = curr_flow_state,
                             !.flow_count = @ + 1,
                             !.pulses = Append(@, curr)], curr)

(***************************************************************************)
(* OpenSprinkler.cpp: station bits as the bytes they are kept in.  A       *)
(* memory m has bytes, the array station_bits with one byte for each of    *)
(* the MaxBoards boards, board 0 first, and beyond, the byte that follows  *)
(* the array in memory.  It records the calls: set_calls the station       *)
(* indices set_station_bit was called with, calls the calls of             *)
(* switch_special_station as <<sid, value, ok>> (ok: whether the switch    *)
(* had its effect), touched the indices of the bytes read or written, ret  *)
(* the value last returned.                                                *)
(***************************************************************************)
MaxBoards == MaxExtBoards + 1      \* MAX_NUM_BOARDS
MaxStations == MaxBoards * 8       \* MAX_NUM_STATIONS

Mem0 ==
    [bytes |-> <<>>, beyond |-> 0, set_calls |-> <<>>, calls |-> <<>>,
     touched |-> {}, ret |-> 0]

\* *(station_bits + bid)
ByteAt(m, bid) == IF bid < MaxBoards THEN m.bytes[bid + 1] ELSE m.beyond

WithByte(m, bid, v) ==
    IF bid < MaxBoards THEN [m EXCEPT !.bytes[bid + 1] = v]
    ELSE [m EXCEPT !.beyond = v]

\* (*data) & mask
Masked(data, mask) == (data \div mask) % 2

Called(m, sid) ==
    [m EXCEPT !.touched = @ \cup {sid \div 8}, !.set_calls = Append(@, sid)]

\* a set_station_bit that takes the bit back when the switch had no effect
SetStationBit_Undo(m, sid, value, ok) ==
    IF value # 0
    THEN (IF Masked(ByteAt(m, sid \div 8), 2 ^ (sid % 8)) = 1 \/ ~ok
          THEN [Called(m, sid) EXCEPT !.ret = 0]
          ELSE [WithByte(Called(m, sid), sid \div 8,
                         ByteAt(m, sid \div 8) + 2 ^ (sid % 8))
                   EXCEPT !.calls = Append(@, <<sid, 1, ok>>), !.ret = 1])
    ELSE (IF Masked(ByteAt(m, sid \div 8), 2 ^ (sid % 8)) = 0 \/ ~ok
          THEN [Called(m, sid) EXCEPT !.ret = 0]
          ELSE [WithByte(Called(m, sid), sid \div 8,
                         ByteAt(m, sid \div 8) - 2 ^ (sid % 8))
                   EXCEPT !.calls = Append(@, <<sid, 0, ok>>), !.ret = 255])

\* set_station_bit(sid, value): data = station_bits + (sid >> 3),
\* mask = 1 << (sid & 0x07)
SetStationBit(m, sid, value, ok) ==
    IF value # 0
    THEN (IF Masked(ByteAt(m, sid \div 8), 2 ^ (sid % 8)) = 1
          THEN [Called(m, sid) EXCEPT !.ret = 0]
          ELSE [WithByte(Called(m, sid), sid \div 8,
                         ByteAt(m, sid \div 8) + 2 ^ (sid % 8))
                   EXCEPT !.calls = Append(@, <<sid, 1, ok>>), !.ret = 1])
    ELSE (IF Masked(ByteAt(m, sid \div 8), 2 ^ (sid % 8)) = 0
          THEN [Called(m, sid) EXCEPT !.ret = 0]
          ELSE [WithByte(Called(m, sid), sid \div 8,
                         ByteAt(m, sid \div 8) - 2 ^ (sid % 8))
                   EXCEPT !.calls = Append(@, <<sid, 0, ok>>), !.ret = 255])

\* clear_all_station_bits: for (sid = 0; sid <= MAX_NUM_STATIONS; sid++),
\* from a memory that has the calls for the indices below sid
RECURSIVE ClearAllFrom(_, _, _)
ClearAllFrom(m, sid, ok) ==
    IF sid > MaxStations \/ Len(m.set_calls) # sid THEN m
    ELSE ClearAllFrom(SetStationBit(m, sid, 0, ok), sid + 1, ok)

ClearAllStationBits(m, ok) == ClearAllFrom(m, 0, ok)

(***************************************************************************)
(* OpenSprinkler.cpp: the shift register.  bytes is station_bits, one byte *)
(* for each board, board 0 first; pins is the sequence of digitalWrite     *)
(* calls, each a pair of pin and level.                                    *)
(***************************************************************************)
BitOf(sbits, n) == (sbits \div (2 ^ n)) % 2

ShiftBit_LowFirst(pins, sbits, s) ==
    pins \o << <<"CLOCK", 0>>, <<"DATA", BitOf(sbits, s)>>, <<"CLOCK", 1>> >>

ShiftBit(pins, sbits, s) ==
    pins \o << <<"CLOCK", 0>>, <<"DATA", BitOf(sbits, 7 - s)>>, <<"CLOCK", 1>> >>

RECURSIVE ShiftByte(_, _, _)
ShiftByte(pins, sbits, s) ==
    IF s >= 8 THEN pins ELSE ShiftByte(ShiftBit(pins, sbits, s), sbits, s + 1)

RECURSIVE ShiftBoards(_, _, _, _)
ShiftBoards(pins, bytes, en, bid) ==
    IF bid > MaxExtBoards THEN pins
    ELSE ShiftBoards(
             ShiftByte(pins,
                       IF en = 1 THEN bytes[MaxExtBoards - bid + 1] ELSE 0, 0),
             bytes, en, bid + 1)

\* the pin writes of one call
apply_all_station_bits(bytes, en) ==
    Append(ShiftBoards(<< <<"LATCH", 0>> >>, bytes, en, 0), <<"LATCH", 1>>)

(***************************************************************************)
(* The state of the controller.                                            *)
(***************************************************************************)
VARIABLES
    rt,             \* the runtime state: pd's queue, station_qid,
                    \* last_seq_stop_time and lastrun; os.station_bits;
                    \* os.status.program_busy, mas, mas2, safe_reboot;
                    \* reboot_timer
    last_time,      \* do_loop's last_time: the second of the last tick
    last_minute,    \* do_loop's last_minute
    enabled,        \* os.status.enabled
    rain_delayed,   \* os.status.rain_delayed
    nvdata,         \* os.nvdata: rd_stop_time, reboot_cause, sunrise_time,
                    \* sunset_time
    sensor1,        \* sensor 1: status bits, timers, switch history
    sensor2,        \* sensor 2
    iopts,          \* os.iopts, the integer options the engine reads
    attrib,         \* the station attributes, each a set of stations:
                    \* mas, mas2, seq, dis, igs, igs2, igrd
    progs,          \* the programs of pd, in order
    rebooted,       \* "no", or how the controller rebooted: "safe", "timer"
    pc,             \* what happened last: "boot", "tick", "http", and the
                    \* steps of the scheduler taken alone
    pre,            \* the runtime state before the last scheduler call
                    \* taken alone
    after_master,   \* the runtime state after each master step of the last
                    \* tick, and whether a step read beyond the queue
    ext,            \* option changes made so far
    shared,         \* a match pass has enqueued a station that had a queue
                    \* entry already
    t_end,          \* the second up to which the run is followed
    old_status,     \* os.old_status: the status bits as last notified
    obs,            \* what the last tick did, step by step, and since when
                    \* each sensor's pin has read the same
    flow,           \* the flow sensor: flow_poll's variables and the clock
                    \* in milliseconds
    files,          \* the data files, and what options_setup did with them
    calc            \* the arguments and the results of the conversions of
                    \* utils.cpp taken alone

vars == <<rt, last_time, last_minute, enabled, rain_delayed, nvdata, sensor1,
          sensor2, iopts, attrib, progs, rebooted, pc, pre, after_master, ext,
          shared, t_end, old_status, obs, flow, files, calc>>

\* the state outside the control loop
side == <<flow, files, calc>>

Rt0 ==
    [queue |-> [i \in Slots |-> EmptyEntry],
     nqueue |-> 0,
     station_qid |-> [s \in Stations |-> NoQid],
     last_seq_stop_time |-> 0,
     lastrun |-> NoRun,
     station_bits |-> [s \in Stations |-> 0],
     program_busy |-> 0,
     mas |-> 0,
     mas2 |-> 0,
     safe_reboot |-> 0,
     reboot_timer |-> 0,
     followed |-> {},
     notified |-> [s \in Stations |-> "none"],
     misordered |-> {},
     logged |-> [s \in Stations |-> 0]]

\* the runtime queue and the reboot request, as the match pass finds or
\* leaves them
QueueOf(r) ==
    [queue |-> r.queue, nqueue |-> r.nqueue, safe_reboot |-> r.safe_reboot,
     reboot_timer |-> r.reboot_timer]

(***************************************************************************)
(* main.cpp, do_loop: one tick of the control loop                         *)
(***************************************************************************)
\* what process_dynamic_events reads
DynOf(en, rd, s1, s2, opts, att) ==
    [en |-> en = 1, rd |-> rd = 1,
     sn1 |-> IsBinarySensor(opts.IOPT_SENSOR1_TYPE) /\ s1.active = 1,
     sn2 |-> IsBinarySensor(opts.IOPT_SENSOR2_TYPE) /\ s2.active = 1,
     igs |-> att.igs, igs2 |-> att.igs2, igrd |-> att.igrd]

RainDelayStep_StopLate(rd, stop, curr_time) ==
    IF rd = 1
    THEN (IF curr_time > stop THEN [rd |-> 0, stop |-> 0, saved |-> 1]
          ELSE [rd |-> rd, stop |-> stop, saved |-> 0])
    ELSE (IF stop > curr_time THEN [rd |-> 1, stop |-> stop, saved |-> 1]
          ELSE [rd |-> rd, stop |-> stop, saved |-> 0])

\* the rain delay status: the flag, the stop time, and the calls of
\* nvdata_save that raindelay_stop and raindelay_start make
RainDelayStep(rd, stop, curr_time) ==
    IF rd = 1
    THEN (IF curr_time >= stop THEN [rd |-> 0, stop |-> 0, saved |-> 1]
          ELSE [rd |-> rd, stop |-> stop, saved |-> 0])
    ELSE (IF stop > curr_time THEN [rd |-> 1, stop |-> stop, saved |-> 1]
          ELSE [rd |-> rd, stop |-> stop, saved |-> 0])

\* check controller status changes: the RAINDELAY notifications pushed, each
\* with the state it carries
RainDelayNotes(old_rd, rd) == IF old_rd # rd THEN <<rd>> ELSE <<>>

\* how often a pin has changed: 0, 1, or more
ChangesStep(changes, raw_before, raw) ==
    IF raw # raw_before /\ changes < 2 THEN changes + 1 ELSE changes

\* since when a pin has read as it reads now
SinceStep(since, raw_before, raw, curr_time) ==
    IF raw # raw_before THEN curr_time ELSE since

\* the program switch: start program n when the switch fired and the
\* program exists
SwitchStart(r, fired, n, ps, curr_time, opts, nv, att) ==
    IF fired /\ Len(ps) >= n
    THEN manual_start_program(r, ps, n, 0, curr_time, opts, nv, att)
    ELSE r

\* the program switch: stop all stations, start program 1 or 2
ProgramSwitch(r, f1, f2, ps, curr_time, opts, nv, att) ==
    SwitchStart(
        SwitchStart(IF f1 \/ f2 THEN reset_all_stations_immediate(r) ELSE r,
                    f1, 1, ps, curr_time, opts, nv, att),
        f2, 2, ps, curr_time, opts, nv, att)

RebootStep_NoLookahead(r, ps, curr_time) ==
    IF r.safe_reboot = 1 /\ curr_time > r.reboot_timer
    THEN (IF r.program_busy = 0 THEN "safe" ELSE "no")
    ELSE IF r.reboot_timer # 0 /\ curr_time > r.reboot_timer
    THEN "timer"
    ELSE "no"

RebootStep_IgnoreBusy(r, ps, curr_time) ==
    IF r.safe_reboot = 1 /\ curr_time > r.reboot_timer
    THEN (IF ~\E pid \in 1 .. Len(ps) : check_match(ps[pid], curr_time + 60)
          THEN "safe" ELSE "no")
    ELSE IF r.reboot_timer # 0 /\ curr_time > r.reboot_timer
    THEN "timer"
    ELSE "no"

\* handle the reboot request: "no", "safe" or "timer"
RebootStep(r, ps, curr_time) ==
    IF r.safe_reboot = 1 /\ curr_time > r.reboot_timer
    THEN (IF r.program_busy = 0
             /\ ~\E pid \in 1 .. Len(ps) : check_match(ps[pid], curr_time + 60)
          THEN "safe" ELSE "no")
    ELSE IF r.reboot_timer # 0 /\ curr_time > r.reboot_timer
    THEN "timer"
    ELSE "no"

\* The tick is a chain of steps over a record s: rt, the runtime state; rd,
\* the rain delay flag; nv, the non-volatile data; s1 and s2, the sensors;
\* f1 and f2, whether each program switch fired; shared.
TickStart ==
    [rt |-> [rt EXCEPT !.mas = iopts.IOPT_MASTER_STATION,
                       !.mas2 = iopts.IOPT_MASTER_STATION_2],
     rd |-> rain_delayed, nv |-> nvdata, s1 |-> sensor1, s2 |-> sensor2,
     f1 |-> FALSE, f2 |-> FALSE, shared |-> shared,
     old |-> old_status, obs |-> obs]

TickRainDelay(s, curr_time) ==
    [s EXCEPT !.rd = RainDelayStep(s.rd, s.nv.rd_stop_time, curr_time).rd,
              !.nv.rd_stop_time =
                  RainDelayStep(s.rd, s.nv.rd_stop_time, curr_time).stop,
              !.old.rain_delayed =
                  RainDelayStep(s.rd, s.nv.rd_stop_time, curr_time).rd,
              !.obs.rd_before = s.rd,
              !.obs.rd_step =
                  RainDelayStep(s.rd, s.nv.rd_stop_time, curr_time).rd,
              !.obs.stop_step =
                  RainDelayStep(s.rd, s.nv.rd_stop_time, curr_time).stop,
              !.obs.nv_saves =
                  RainDelayStep(s.rd, s.nv.rd_stop_time, curr_time).saved,
              !.obs.rd_notes =
                  RainDelayNotes(s.old.rain_delayed,
                      RainDelayStep(s.rd, s.nv.rd_stop_time, curr_time).rd)]

Sensor1(sn, val, curr_time) ==
    detect_programswitch(
        detect_binarysensor(sn, iopts.IOPT_SENSOR1_TYPE,
            iopts.IOPT_SENSOR1_OPTION, iopts.IOPT_SENSOR1_ON_DELAY,
            iopts.IOPT_SENSOR1_OFF_DELAY, val, curr_time),
        iopts.IOPT_SENSOR1_TYPE, iopts.IOPT_SENSOR1_OPTION, val)

Sensor2(sn, val, curr_time) ==
    detect_programswitch(
        detect_binarysensor(sn, iopts.IOPT_SENSOR2_TYPE,
            iopts.IOPT_SENSOR2_OPTION, iopts.IOPT_SENSOR2_ON_DELAY,
            iopts.IOPT_SENSOR2_OFF_DELAY, val, curr_time),
        iopts.IOPT_SENSOR2_TYPE, iopts.IOPT_SENSOR2_OPTION, val)

TickSensors(s, val1, val2, curr_time) ==
    [s EXCEPT !.s1 = Sensor1(s.s1, val1, curr_time).sn,
              !.f1 = Sensor1(s.s1, val1, curr_time).fired,
              !.s2 = Sensor2(s.s2, val2, curr_time).sn,
              !.f2 = Sensor2(s.s2, val2, curr_time).fired,
              !.old.sensor1_active = Sensor1(s.s1, val1, curr_time).sn.active,
              !.old.sensor2_active = Sensor2(s.s2, val2, curr_time).sn.active,
              !.obs.act1_before = s.s1.active,
              !.obs.act2_before = s.s2.active,
              !.obs.raw1_changes =
                  ChangesStep(@, s.s1.raw, Sensor1(s.s1, val1, curr_time).sn.raw),
              !.obs.raw1_since =
                  SinceStep(@, s.s1.raw, Sensor1(s.s1, val1, curr_time).sn.raw,
                            curr_time),
              !.obs.raw2_since =
                  SinceStep(@, s.s2.raw, Sensor2(s.s2, val2, curr_time).sn.raw,
                            curr_time),
              !.obs.sw1 = SamplesStep(@, iopts.IOPT_SENSOR1_TYPE,
                                      iopts.IOPT_SENSOR1_OPTION, val1),
              !.obs.sw2 = SamplesStep(@, iopts.IOPT_SENSOR2_TYPE,
                                      iopts.IOPT_SENSOR2_OPTION, val2),
              !.obs.fired1 = Sensor1(s.s1, val1, curr_time).fired,
              !.obs.fired2 = Sensor2(s.s2, val2, curr_time).fired,
              !.obs.gap1 = GapStep(@, iopts.IOPT_SENSOR1_TYPE,
                                   Sensor1(s.s1, val1, curr_time).fired),
              !.obs.gap2 = GapStep(@, iopts.IOPT_SENSOR2_TYPE,
                                   Sensor2(s.s2, val2, curr_time).fired)]

TickSwitch(s, curr_time) ==
    [s EXCEPT !.rt = ProgramSwitch(@, s.f1, s.f2, progs, curr_time, iopts, s.nv,
                                   attrib)]

\* a matching step that does not look at the minute of the last pass
TickMatch_EveryTick(s, curr_time) ==
    [s EXCEPT !.rt = MatchPass(@, progs, curr_time, iopts, s.nv, attrib),
              !.obs.matched = TRUE,
              !.obs.q_before = QueueOf(s.rt),
              !.obs.q_after =
                  QueueOf(MatchPass(s.rt, progs, curr_time, iopts, s.nv,
                                    attrib)),
              !.obs.sched = MatchSched(s.rt, progs, curr_time, iopts, s.nv,
                                       attrib),
              !.shared = @ \/ MatchShares(s.rt, progs, curr_time, iopts,
                                          s.nv, attrib)]

TickMatch(s, curr_time) ==
    [s EXCEPT !.rt = IF curr_time \div 60 # last_minute
                     THEN MatchPass(@, progs, curr_time, iopts, s.nv, attrib)
                     ELSE @,
              !.obs.matched = curr_time \div 60 # last_minute,
              !.obs.q_before = QueueOf(s.rt),
              !.obs.q_after =
                  QueueOf(IF curr_time \div 60 # last_minute
                          THEN MatchPass(s.rt, progs, curr_time, iopts, s.nv,
                                         attrib)
                          ELSE s.rt),
              !.obs.sched =
                  IF curr_time \div 60 # last_minute
                  THEN MatchSched(s.rt, progs, curr_time, iopts, s.nv, attrib)
                  ELSE <<>>,
              !.shared = IF curr_time \div 60 # last_minute
                         THEN @ \/ MatchShares(s.rt, progs, curr_time, iopts,
                                               s.nv, attrib)
                         ELSE @]

TickDyn(s) == DynOf(enabled, s.rd, s.s1, s.s2, iopts, attrib)

TickRun(s, curr_time) ==
    [s EXCEPT !.rt = RunProgramData(@, curr_time, TickDyn(s), iopts, attrib.seq)]

\* the tick up to the master steps: rain delay, sensors, program switch,
\* program matching, run program data
TickHead(curr_time, val1, val2) ==
    TickRun(
        TickMatch(
            TickSwitch(
                TickSensors(TickRainDelay(TickStart, curr_time),
                            val1, val2, curr_time),
                curr_time),
            curr_time),
        curr_time)

BeyondChoices(r, m, uses) ==
    IF m > 0 /\ MasterReadsBeyond(r, m, uses) THEN BOOLEAN ELSE {FALSE}

Master1(r, curr_time, beyond) ==
    HandleMaster(r, r.mas, attrib.mas, iopts.IOPT_MASTER_ON_ADJ,
                 iopts.IOPT_MASTER_OFF_ADJ, curr_time, beyond)

Master2(r, curr_time, beyond) ==
    HandleMaster(r, r.mas2, attrib.mas2, iopts.IOPT_MASTER_ON_ADJ_2,
                 iopts.IOPT_MASTER_OFF_ADJ_2, curr_time, beyond)

\* the seconds each station bit has been 1: a bit that was 1 when the last
\* tick ended counts for all the time up to this tick
OnSecsStep(secs, curr_time) ==
    [sid \in Stations |->
        secs[sid] + (IF obs.bits_end[sid] = 1 /\ last_time # 0
                        /\ sid \in rt.followed
                     THEN curr_time - last_time ELSE 0)]

\* the end of the tick: r7 and r8 are the runtime state after each master
\* step, r9 after the second pass of dynamic events
TickCommit(s, r7, r8, r9, beyond, curr_time) ==
    /\ rt' = r9
    /\ after_master' = [m1 |-> r7, m2 |-> r8, beyond |-> beyond]
    /\ rebooted' = RebootStep(r9, progs, curr_time)
    /\ nvdata' = [s.nv EXCEPT !.reboot_cause =
                      IF RebootStep(r9, progs, curr_time) = "timer"
                      THEN REBOOT_CAUSE_TIMER ELSE @]
    /\ rain_delayed' = s.rd
    /\ sensor1' = s.s1
    /\ sensor2' = s.s2
    /\ last_time' = curr_time
    /\ last_minute' = curr_time \div 60
    /\ shared' = s.shared
    /\ old_status' = s.old
    /\ obs' = [s.obs EXCEPT !.steady = @ /\ (last_time = 0
                                              \/ curr_time = last_time + 1),
                            !.on_secs = OnSecsStep(@, curr_time),
                            !.bits_end =
                                [sid \in Stations |->
                                    IF sid \in r9.followed
                                    THEN r9.station_bits[sid] ELSE 0]]

TickMaster2(s, r7, beyond1, curr_time) ==
    \E beyond2 \in BeyondChoices(r7, r7.mas2, attrib.mas2) :
        TickCommit(s, r7, Master2(r7, curr_time, beyond2),
                   process_dynamic_events(Master2(r7, curr_time, beyond2),
                                          curr_time, TickDyn(s)),
                   beyond1 \/ beyond2, curr_time)

TickMaster1(s, curr_time) ==
    \E beyond1 \in BeyondChoices(s.rt, s.rt.mas, attrib.mas) :
        TickMaster2(s, Master1(s.rt, curr_time, beyond1), beyond1, curr_time)

\* the clock of the tick: T0 at boot, then one or more seconds later
TickTime(dt) == IF last_time = 0 THEN T0 ELSE last_time + dt

Tick ==
    /\ rebooted = "no"
    /\ pc \in {"boot", "tick", "http"}
    /\ \E dt \in 1 .. MaxStep,
          val1 \in PinValues(iopts.IOPT_SENSOR1_TYPE),
          val2 \in PinValues(iopts.IOPT_SENSOR2_TYPE) :
        /\ TickTime(dt) <= t_end
        /\ (last_time = 0 => dt = 1)
        /\ TickMaster1(TickHead(TickTime(dt), val1, val2), TickTime(dt))
    /\ pc' = "tick"
    /\ UNCHANGED <<enabled, iopts, attrib, progs, pre, ext, t_end>>
    /\ UNCHANGED side

(***************************************************************************)
(* Between ticks: the commands of the HTTP handler that the engine sees.   *)
(***************************************************************************)
\* change the master station option
SetMaster ==
    /\ rebooted = "no" /\ pc \in {"tick", "http"} /\ ext < MaxExt
    /\ \E m \in 0 .. NumStations :
          /\ m # iopts.IOPT_MASTER_STATION
          /\ iopts' = [iopts EXCEPT !.IOPT_MASTER_STATION = m]
    /\ ext' = ext + 1
    /\ pc' = "http"
    /\ UNCHANGED <<rt, last_time, last_minute, enabled, rain_delayed, nvdata,
                   sensor1, sensor2, attrib, progs, rebooted, pre, after_master,
                   shared, t_end>>
    /\ UNCHANGED <<old_status, obs>>
    /\ UNCHANGED side

\* set the rain delay stop time
SetRainDelay ==
    /\ rebooted = "no" /\ pc \in {"tick", "http"} /\ ext < MaxExt
    /\ nvdata.rd_stop_time = 0
    /\ nvdata' = [nvdata EXCEPT !.rd_stop_time = last_time + 3]
    /\ ext' = ext + 1
    /\ pc' = "http"
    /\ UNCHANGED <<rt, last_time, last_minute, enabled, rain_delayed, sensor1,
                   sensor2, iopts, attrib, progs, rebooted, pre, after_master,
                   shared, t_end>>
    /\ UNCHANGED <<old_status, obs>>
    /\ UNCHANGED side

\* OpenSprinkler::enable and OpenSprinkler::disable
SetEnabled ==
    /\ rebooted = "no" /\ pc \in {"tick", "http"} /\ ext < MaxExt
    /\ enabled' = 1 - enabled
    /\ iopts' = [iopts EXCEPT !.IOPT_DEVICE_ENABLE = 1 - enabled]
    /\ ext' = ext + 1
    /\ pc' = "http"
    /\ UNCHANGED <<rt, last_time, last_minute, rain_delayed, nvdata, sensor1,
                   sensor2, attrib, progs, rebooted, pre, after_master, shared, t_end>>
    /\ UNCHANGED <<old_status, obs>>
    /\ UNCHANGED side

\* manually start program 1, within the second of the last tick; the
\* iteration of do_loop that serves the request has refreshed the masters
ManualStart ==
    /\ rebooted = "no" /\ pc \in {"tick", "http"} /\ ext < MaxExt
    /\ Len(progs) > 0
    /\ rt' = manual_start_program(
                 [rt EXCEPT !.mas = iopts.IOPT_MASTER_STATION,
                            !.mas2 = iopts.IOPT_MASTER_STATION_2],
                 progs, 1, 0, last_time, iopts, nvdata, attrib)
    /\ ext' = ext + 1
    /\ pc' = "http"
    /\ UNCHANGED <<last_time, last_minute, enabled, rain_delayed, nvdata,
                   sensor1, sensor2, iopts, attrib, progs, rebooted, pre,
                   after_master, shared, t_end>>
    /\ UNCHANGED <<old_status, obs>>
    /\ UNCHANGED side

(***************************************************************************)
(* The scheduler taken alone: one call, then a second call.                *)
(***************************************************************************)
SchedOnce ==
    /\ pc = "sched"
    /\ rt' = schedule_all_stations(rt, last_time, iopts.IOPT_STATION_DELAY_TIME,
                                   iopts.IOPT_REMOTE_EXT_MODE, attrib.seq)
    /\ pre' = rt
    /\ pc' = "once"
    /\ UNCHANGED <<last_time, last_minute, enabled, rain_delayed, nvdata,
                   sensor1, sensor2, iopts, attrib, progs, rebooted,
                   after_master, ext, shared, t_end>>
    /\ UNCHANGED <<old_status, obs>>
    /\ UNCHANGED side

SchedAgain ==
    /\ pc = "once"
    /\ \E later \in {0, 1, 7} :
          /\ rt' = schedule_all_stations(rt, last_time + later,
                                         iopts.IOPT_STATION_DELAY_TIME,
                                         iopts.IOPT_REMOTE_EXT_MODE, attrib.seq)
          /\ last_time' = last_time + later
    /\ pre' = rt
    /\ pc' = "twice"
    /\ UNCHANGED <<last_minute, enabled, rain_delayed, nvdata, sensor1, sensor2,
                   iopts, attrib, progs, rebooted, after_master, ext, shared, t_end>>
    /\ UNCHANGED <<old_status, obs>>
    /\ UNCHANGED side

(***************************************************************************)
(* Initial states.                                                         *)
(***************************************************************************)
\* the integer options as OpenSprinkler::iopts[] sets them
Opts0 ==
    [IOPT_STATION_DELAY_TIME |-> 120,
     IOPT_MASTER_STATION |-> 0,
     IOPT_MASTER_ON_ADJ |-> 120,
     IOPT_MASTER_OFF_ADJ |-> 120,
     IOPT_WATER_PERCENTAGE |-> 100,
     IOPT_DEVICE_ENABLE |-> 1,
     IOPT_MASTER_STATION_2 |-> 0,
     IOPT_MASTER_ON_ADJ_2 |-> 120,
     IOPT_MASTER_OFF_ADJ_2 |-> 120,
     IOPT_REMOTE_EXT_MODE |-> 0,
     IOPT_SENSOR1_TYPE |-> SENSOR_TYPE_NONE,
     IOPT_SENSOR1_OPTION |-> 1,
     IOPT_SENSOR2_TYPE |-> SENSOR_TYPE_NONE,
     IOPT_SENSOR2_OPTION |-> 1,
     IOPT_SENSOR1_ON_DELAY |-> 0,
     IOPT_SENSOR1_OFF_DELAY |-> 0,
     IOPT_SENSOR2_ON_DELAY |-> 0,
     IOPT_SENSOR2_OFF_DELAY |-> 0]

Attrib0 ==
    [mas |-> {}, mas2 |-> {}, seq |-> {}, dis |-> {}, igs |-> {}, igs2 |-> {},
     igrd |-> {}]

OldStatus0 == [rain_delayed |-> 0, sensor1_active |-> 0, sensor2_active |-> 0]

\* nothing observed yet
Obs0 ==
    [rd_before |-> 0, rd_step |-> 0, stop_step |-> 0, nv_saves |-> 0,
     rd_notes |-> <<>>, act1_before |-> 0, act2_before |-> 0,
     raw1_since |-> 0, raw2_since |-> 0, raw1_changes |-> 0, steady |-> TRUE,
     matched |-> FALSE, q_before |-> QueueOf(Rt0), q_after |-> QueueOf(Rt0),
     sw1 |-> <<>>, sw2 |-> <<>>, fired1 |-> FALSE, fired2 |-> FALSE,
     gap1 |-> SwitchGap, gap2 |-> SwitchGap,
     sched |-> <<>>, sid |-> 0,
     on_secs |-> [s \in Stations |-> 0],
     bits_end |-> [s \in Stations |-> 0]]

\* the flow sensor before the first pulse
Flow0 ==
    [flow_begin |-> 0, flow_start |-> 0, flow_stop |-> 0, flow_gallons |-> 0,
     flow_count |-> 0, prev_flow_state |-> 1, millis |-> 0, pulses |-> <<>>,
     polled |-> FALSE, steps |-> 0, samples |-> <<>>]

\* The data files: whether iopts.dat and done.dat exist, the firmware
\* version byte of iopts.dat and the reboot cause of nvcon.dat; and what the
\* last options_setup did: the files it wrote, whether it was a factory
\* reset, what it loaded, the reboot cause it found and the firmware version
\* of the options in memory.  at_boot is the files as that call found them.
\* pending is what began a factory reset that has not been completed since:
\* "no_done" for a missing done.dat, "version" for the version byte alone.
Files0 ==
    [iopts |-> FALSE, fw |-> 0, done |-> FALSE, cause |-> REBOOT_CAUSE_NONE,
     written |-> {}, reset |-> FALSE, loaded |-> {},
     last_reboot_cause |-> REBOOT_CAUSE_NONE, ram_fw |-> OS_FW_VERSION,
     at_boot |-> [iopts |-> FALSE, fw |-> 0, done |-> FALSE],
     boots |-> 0, pc |-> "off", pending |-> "none"]

\* What check_weather reads and writes: the time of the last attempt and of
\* the last success (0 for none), the watering percentage and the weather
\* algorithm, the three conditions that hold it back, the time now_tz() of
\* the call and whether the call started a fetch (GetWeather).
Wt0 ==
    [checkwt_lasttime |-> 0, checkwt_success_lasttime |-> 0,
     water_percentage |-> 100, use_weather |-> 0,
     network_fails |-> 0, remote_ext |-> 0, program_busy |-> 0,
     ntz |-> 0, fetched |-> FALSE, calls |-> 0]

\* A call of send_http_request: where it is ("idle", "loop" inside the
\* while loop, "done" returned), millis() and stoptime, whether a read has
\* put text in ether_buffer, the result, the number of reads and its parity
\* (turn: the loop going round); and the peer:
\* what its next reads give (script) and what every read after them gives.
Http0 ==
    [pc |-> "idle", millis |-> 0, stoptime |-> 0, got_data |-> FALSE,
     result |-> 1, reads |-> 0, turn |-> 0, script |-> <<>>,
     then |-> "closed"]

\* A call of switch_rfstation: the special data of the station, turnon,
\* what parse_rfstation_code returned and left in on and off, the code that
\* was sent, and the pulses of the transmitter as pairs <<high, low>> of
\* microseconds, each pulse being a write of 1 and a write of 0 to the pin.
Rf0 ==
    [called |-> FALSE, data |-> [on |-> <<>>, off |-> <<>>, timing |-> <<>>],
     turnon |-> 0, length |-> 0, on |-> 0, off |-> 0, code |-> 0,
     pulses |-> <<>>]

\* The last call of a function of utils.cpp: its name, its argument x, the
\* sun times and the width it was called with, its result (ulong for
\* water_time_resolve, res for the others) and the result taken back
\* through the opposite conversion.  For the station bits: the memory
\* before (old) and after (mem) the call and its arguments.
Calc0 ==
    [fn |-> "none", x |-> 0, sunrise |-> 0, sunset |-> 0, bits |-> ULongBits,
     ulong |-> ULong(0, ULongBits), res |-> 0, back |-> 0,
     bytes |-> <<>>, en |-> 1, pins |-> <<>>, wl |-> 0, uw |-> 0,
     mem |-> Mem0, old |-> Mem0, sid |-> 0, value |-> 0, ok |-> TRUE,
     wt |-> Wt0, wt_old |-> Wt0, http |-> Http0, rf |-> Rf0]

\* the parts of the controller that a run of the control loop leaves alone
InitSide == flow = Flow0 /\ files = Files0 /\ calc = Calc0

NvData0 ==
    [rd_stop_time |-> 0, reboot_cause |-> REBOOT_CAUSE_POWERON,
     sunrise_time |-> SunriseDefault, sunset_time |-> SunsetDefault]

\* the water times of a program: those listed, for stations 0, 1, ...
DursOf(ds) == [s \in Stations |-> IF s + 1 <= Len(ds) THEN ds[s + 1] ELSE 0]

Prog(name, ds, starts) ==
    [name |-> name, enabled |-> 1, use_weather |-> 0, durations |-> DursOf(ds),
     starts |-> starts]

Minute0 == T0 \div 60

\* the controller after do_setup
InitEngine ==
    /\ rt = Rt0
    /\ last_time = 0
    /\ last_minute = 0
    /\ enabled = 1
    /\ rain_delayed = 0
    /\ sensor1 = SensorOff
    /\ sensor2 = SensorOff
    /\ rebooted = "no"
    /\ pc = "boot"
    /\ pre = Rt0
    /\ after_master = [m1 |-> Rt0, m2 |-> Rt0, beyond |-> FALSE]
    /\ shared = FALSE
    /\ old_status = OldStatus0
    /\ obs = Obs0

\* the control loop at rest, for the parts that are followed on their own
InitRest ==
    /\ InitEngine
    /\ iopts = Opts0
    /\ attrib = Attrib0
    /\ progs = <<>>
    /\ nvdata = NvData0
    /\ t_end = T0
    /\ ext = MaxExt

\* programs that share stations or not, with and without a rain delay
Init ==
    /\ InitEngine
    /\ InitSide
    /\ \E sdt \in {119, 120, 121} :
          iopts = [Opts0 EXCEPT !.IOPT_STATION_DELAY_TIME = sdt]
    /\ \E seq \in {{}, Stations}, igrd \in {{}, {1}} :
          attrib = [Attrib0 EXCEPT !.seq = seq, !.igrd = igrd]
    /\ progs \in
          { <<Prog(NameWater, <<2>>, {Minute0}),
              Prog(NameWater, <<2, 5, 5>>, {Minute0})>>,
            <<Prog(NameWater, <<3, 1, 8>>, {Minute0})>>,
            <<Prog(NameWater, <<3, 4>>, {Minute0}),
              Prog(NameWater, <<0, 0, 2>>, {Minute0})>> }
    /\ \E stop \in {0, T0 + 4} : nvdata = [NvData0 EXCEPT !.rd_stop_time = stop]
    /\ t_end = T0 + MaxTicks
    /\ ext = 0

Next == Tick \/ SetRainDelay \/ SetEnabled \/ ManualStart

Spec == Init /\ [][Next]_vars

(***************************************************************************)
(* The scheduler taken alone.  The queue holds new entries, the first of   *)
(* them possibly scheduled two seconds ago and still running.              *)
(***************************************************************************)
SchedQueue(n, q, old) ==
    [i \in Slots |->
        IF i >= n THEN EmptyEntry
        ELSE [sid |-> q[i].sid, pid |-> 1, dur |-> q[i].dur,
              st |-> IF old /\ i = 0 /\ q[i].dur # 0 THEN T0 - 2 ELSE 0]]

SchedRt(queue, n, re, seq) ==
    [Rt0 EXCEPT !.queue = queue, !.nqueue = n,
                !.program_busy = IF queue[0].st # 0 THEN 1 ELSE 0,
                !.last_seq_stop_time =
                    LastSeqStop([Rt0 EXCEPT !.queue = queue, !.nqueue = n],
                                T0 - 1, re, seq)]

InitSched ==
    /\ \/ /\ \E sdt \in {0, 119, 120, 121, 240}, re \in {0, 1} :
                iopts = [Opts0 EXCEPT !.IOPT_STATION_DELAY_TIME = sdt,
                                      !.IOPT_REMOTE_EXT_MODE = re]
          /\ \E seq \in {{}, {0}, Stations} :
                attrib = [Attrib0 EXCEPT !.seq = seq]
          /\ \E n \in 0 .. SchedLen, old \in BOOLEAN,
                q \in [0 .. (SchedLen - 1) ->
                          [sid : {0, NumStations - 1}, dur : {0, 2, 7}]] :
                rt = SchedRt(SchedQueue(n, q, old), n,
                             iopts.IOPT_REMOTE_EXT_MODE, attrib.seq)
       \/ /\ iopts = [Opts0 EXCEPT !.IOPT_STATION_DELAY_TIME = 122]
          /\ attrib = [Attrib0 EXCEPT !.seq = Stations]
          /\ rt = SchedRt(SchedQueue(2, [i \in 0 .. 1 |-> [sid |-> i, dur |-> 30]],
                                     FALSE),
                          2, 0, Stations)
    /\ last_time = T0
    /\ last_minute = T0 \div 60
    /\ enabled = 1
    /\ rain_delayed = 0
    /\ nvdata = NvData0
    /\ sensor1 = SensorOff
    /\ sensor2 = SensorOff
    /\ progs = <<>>
    /\ rebooted = "no"
    /\ pc = "sched"
    /\ pre = rt
    /\ after_master = [m1 |-> Rt0, m2 |-> Rt0, beyond |-> FALSE]
    /\ ext = 0
    /\ shared = FALSE
    /\ t_end = T0
    /\ old_status = OldStatus0
    /\ obs = Obs0
    /\ InitSide

NextSched == SchedOnce \/ SchedAgain

SpecSched == InitSched /\ [][NextSched]_vars

\* the station delay in seconds
StationDelay == water_time_decode_signed(iopts.IOPT_STATION_DELAY_TIME)

\* queue entry i is of a sequential station and was given its start time by
\* the scheduler call just made
AssignedSeq(i) ==
    /\ i < rt.nqueue
    /\ pre.queue[i].st = 0 /\ rt.queue[i].st # 0 /\ rt.queue[i].dur # 0
    /\ rt.queue[i].sid \in attrib.seq

Disjoint(a, b) == a.st + a.dur <= b.st \/ b.st + b.dur <= a.st

SpacedAtLeast(a, b, gap) == b.st >= a.st + a.dur + gap

\* C1, as stated: for every station delay, the intervals of the sequential
\* entries assigned in one pass (remote extension mode off) are pairwise
\* disjoint, and each later one begins at least the station delay after the
\* earlier one ends.
C1_AllDelaysDisjoint ==
    (pc = "once" /\ iopts.IOPT_REMOTE_EXT_MODE = 0) =>
        \A i, j \in Slots :
            (i < j /\ AssignedSeq(i) /\ AssignedSeq(j)) =>
                /\ Disjoint(rt.queue[i], rt.queue[j])
                /\ SpacedAtLeast(rt.queue[i], rt.queue[j], StationDelay)

\* C1, amended: each sequential entry assigned in one pass begins exactly the
\* station delay after the end of the one assigned before it; and when the
\* station delay is not negative the intervals are pairwise disjoint and
\* each later one begins at least the station delay after the earlier ends.
C1_SpacedByDelay ==
    (pc = "once" /\ iopts.IOPT_REMOTE_EXT_MODE = 0) =>
        \A i, j \in Slots :
            (i < j /\ AssignedSeq(i) /\ AssignedSeq(j)) =>
                /\ (\A k \in Slots : (i < k /\ k < j) => ~AssignedSeq(k)) =>
                       rt.queue[j].st =
                           rt.queue[i].st + rt.queue[i].dur + StationDelay
                /\ StationDelay >= 0 =>
                       /\ Disjoint(rt.queue[i], rt.queue[j])
                       /\ SpacedAtLeast(rt.queue[i], rt.queue[j], StationDelay)

\* three sequential entries assigned in one pass with a positive station
\* delay, behind an entry that is still running
C1_Witness ==
    /\ pc = "once" /\ iopts.IOPT_REMOTE_EXT_MODE = 0 /\ StationDelay > 0
    /\ pre.queue[0].st # 0
    /\ \E i, j \in Slots : i < j /\ AssignedSeq(i) /\ AssignedSeq(j)
                            /\ rt.queue[j].st > rt.queue[i].st

\* C9: a second call of schedule_all_stations, at the same or a later time
\* and with no new entry enqueued, leaves the start times, the queue and
\* program_busy as they were.
C9_Idempotent == pc = "twice" => rt = pre

\* a second call, later, over a queue of scheduled entries
C9_Witness ==
    /\ pc = "twice" /\ rt.program_busy = 1 /\ rt.nqueue >= 2
    /\ \E i \in Slots : i < rt.nqueue /\ rt.queue[i].st > 0
                         /\ rt.queue[i].st <= last_time

(***************************************************************************)
(* The control loop: stations and their queue entries.                     *)
(***************************************************************************)
IsMaster(sid) == rt.mas = sid + 1 \/ rt.mas2 = sid + 1

InRange(q, now) == q.st <= now /\ now < q.st + q.dur

\* the queue slots in use that hold an entry of station sid
EntriesOf(sid) == {i \in Slots : i < rt.nqueue /\ rt.queue[i].sid = sid}

\* C2: at the end of every tick, every non-master station whose bit is 1
\* has a queue entry of its own with start_time <= now < start_time +
\* duration: no station is on because of another station's entry or after
\* its own entry was dequeued.
C2_OnOnlyWithOwnEntry ==
    pc = "tick" =>
        \A sid \in Stations :
            (~IsMaster(sid) /\ rt.station_bits[sid] = 1) =>
                \E i \in EntriesOf(sid) : InRange(rt.queue[i], last_time)

\* the queue entry that owns station sid is in range
OwnedInRange(sid) ==
    /\ rt.station_qid[sid] < rt.nqueue
    /\ rt.queue[rt.station_qid[sid]].sid = sid
    /\ InRange(rt.queue[rt.station_qid[sid]], last_time)

\* a condition that cuts station sid off holds
CutOff(sid) ==
    \/ enabled = 0
    \/ rain_delayed = 1 /\ sid \notin attrib.igrd
    \/ /\ IsBinarySensor(iopts.IOPT_SENSOR1_TYPE) /\ sensor1.active = 1
       /\ sid \notin attrib.igs
    \/ /\ IsBinarySensor(iopts.IOPT_SENSOR2_TYPE) /\ sensor2.active = 1
       /\ sid \notin attrib.igs2

\* station sid is a master and the co-activation predicate holds of it
MasterHolds(sid) ==
    \/ /\ rt.mas = sid + 1
       /\ MasterBit(rt, rt.mas, attrib.mas,
                    water_time_decode_signed(iopts.IOPT_MASTER_ON_ADJ),
                    water_time_decode_signed(iopts.IOPT_MASTER_OFF_ADJ),
                    last_time, FALSE) = 1
    \/ /\ rt.mas2 = sid + 1
       /\ MasterBit(rt, rt.mas2, attrib.mas2,
                    water_time_decode_signed(iopts.IOPT_MASTER_ON_ADJ_2),
                    water_time_decode_signed(iopts.IOPT_MASTER_OFF_ADJ_2),
                    last_time, FALSE) = 1

\* C3: across any tick, a station's bit is 1 iff a queue entry owning it has
\* start_time <= now < start_time + duration and no cut-off condition
\* (disabled, rain delay, active sensor) holds of the station, or the station
\* is a master and the co-activation predicate holds.
C3_BitIffOwnedAndNoCutOff ==
    pc = "tick" =>
        \A sid \in Stations :
            rt.station_bits[sid] = 1 <=>
                \/ OwnedInRange(sid) /\ ~CutOff(sid)
                \/ MasterHolds(sid)

\* C4: after a pass of dynamic events no queue entry of a program (program
\* id below 99) remains for a non-master station that a cut-off condition
\* holds of, however many entries the station has, and the bit of such a
\* station is not 1.
C4_CutOffLeavesNoEntry ==
    pc = "tick" =>
        \A sid \in Stations :
            (~IsMaster(sid) /\ CutOff(sid)) =>
                /\ \A i \in EntriesOf(sid) : rt.queue[i].pid >= FirstManualPid
                /\ rt.station_bits[sid] = 1 =>
                       \E i \in EntriesOf(sid) : rt.queue[i].pid >= FirstManualPid

ScheduledEntriesOf(sid) ==
    {i \in EntriesOf(sid) : rt.queue[i].st # 0 /\ rt.queue[i].dur # 0}

\* C5, as stated: in every reachable state each station has at most one
\* queue entry with start_time # 0 and duration # 0, whatever the programs.
C5_OneEntryPerStation ==
    \A sid \in Stations : Cardinality(ScheduledEntriesOf(sid)) <= 1

\* C5, amended: as long as no match pass has enqueued a station that had a
\* queue entry already, each station has at most one queue entry with
\* start_time # 0 and duration # 0.
C5_OneEntryUnlessShared ==
    ~shared => \A sid \in Stations : Cardinality(ScheduledEntriesOf(sid)) <= 1

\* a manual start has replaced the queue: three stations each have their
\* one entry
C5_Witness ==
    /\ ~shared /\ pc = "http" /\ rt.nqueue >= 3
    /\ \A i \in Slots : i < rt.nqueue =>
           rt.queue[i].pid = ManualPid /\ rt.queue[i].st # 0
    /\ rt.lastrun.endtime # 0

\* C6, as stated: whenever program_busy is 1 the queue is not empty and has
\* an entry with start_time <= now < start_time + duration.
C6_BusyHasRunning ==
    rt.program_busy = 1 =>
        /\ rt.nqueue > 0
        /\ \E i \in Slots : i < rt.nqueue /\ InRange(rt.queue[i], last_time)

\* C6, amended: at the end of a tick, when program_busy is 1 the queue is
\* not empty and has an entry that has not ended: now < start_time +
\* duration.
C6_BusyHasPending ==
    (pc = "tick" /\ rt.program_busy = 1) =>
        /\ rt.nqueue > 0
        /\ \E i \in Slots : /\ i < rt.nqueue
                             /\ last_time < rt.queue[i].st + rt.queue[i].dur

\* busy in a gap between two sequential runs: one run has ended and the
\* next has not begun
C6_Witness ==
    /\ pc = "tick" /\ rt.program_busy = 1 /\ rt.lastrun.endtime # 0
    /\ \A i \in Slots : i < rt.nqueue => rt.queue[i].st > last_time

(***************************************************************************)
(* The control loop with master stations.  One run follows a program of a  *)
(* minute's length and changes no option.                                  *)
(***************************************************************************)
InitMaster ==
    /\ InitEngine
    /\ InitSide
    /\ \E m \in {0, 1}, m2 \in {0, 2}, adj \in {<<120, 120>>, <<121, 119>>} :
          iopts = [Opts0 EXCEPT !.IOPT_MASTER_STATION = m,
                                !.IOPT_MASTER_STATION_2 = m2,
                                !.IOPT_MASTER_ON_ADJ = adj[1],
                                !.IOPT_MASTER_OFF_ADJ = adj[2],
                                !.IOPT_MASTER_ON_ADJ_2 = adj[1],
                                !.IOPT_MASTER_OFF_ADJ_2 = adj[2]]
    /\ \E mas \in {{2}, {1, 2}}, mas2 \in {{}, {2}} :
          attrib = [Attrib0 EXCEPT !.mas = mas, !.mas2 = mas2]
    /\ nvdata = NvData0
    /\ \/ /\ progs = <<Prog(NameWater, <<4, 0, 6>>, {Minute0})>>
          /\ t_end = T0 + MaxTicks
          /\ ext = 0
       \/ /\ progs = <<Prog(NameWater, <<0, 0, 60>>, {Minute0})>>
          /\ t_end = T0 + 60 + MaxTicks
          /\ ext = MaxExt

NextMaster == Tick \/ ManualStart

SpecMaster == InitMaster /\ [][NextMaster]_vars

\* the same, with the master option changed between ticks
NextOptions == Tick \/ SetMaster \/ ManualStart

SpecOptions == InitMaster /\ [][NextOptions]_vars

\* C7: no queue entry is of the current master station or master-2 station,
\* also after the master option was changed between ticks while entries
\* were queued.  Stated of the end of every tick.
C7_NoMasterInQueue ==
    pc = "tick" =>
        \A i \in Slots :
            i < rt.nqueue =>
                /\ rt.queue[i].sid + 1 # iopts.IOPT_MASTER_STATION
                /\ rt.queue[i].sid + 1 # iopts.IOPT_MASTER_STATION_2

\* the claim's co-activation predicate of master m in runtime state r: a
\* station other than the master is on, activates the master, and the
\* queue entry that owns it is in the adjusted window
MasterPredicate(r, m, uses, on_adj, off_adj, now) ==
    \E sid \in Stations :
        /\ sid # m - 1
        /\ r.station_bits[sid] = 1 /\ sid \in uses
        /\ r.station_qid[sid] < r.nqueue
        /\ r.queue[r.station_qid[sid]].st + on_adj <= now
        /\ now <= r.queue[r.station_qid[sid]].st
                     + r.queue[r.station_qid[sid]].dur + off_adj

MasterAsClaimed(r, m, uses, on_adj, off_adj, now) ==
    m > 0 => (r.station_bits[m - 1] = 1
                 <=> MasterPredicate(r, m, uses, on_adj, off_adj, now))

\* C8: after the master co-activation step of a tick, for master 1 and for
\* master 2, the master's bit is 1 iff some other station is on, activates
\* that master, and its owning queue entry has start_time + on_adj <= now
\* <= start_time + duration + off_adj.
C8_MasterIffWindow ==
    pc = "tick" =>
        /\ MasterAsClaimed(after_master.m1, after_master.m1.mas, attrib.mas,
               water_time_decode_signed(iopts.IOPT_MASTER_ON_ADJ),
               water_time_decode_signed(iopts.IOPT_MASTER_OFF_ADJ), last_time)
        /\ MasterAsClaimed(after_master.m2, after_master.m2.mas2, attrib.mas2,
               water_time_decode_signed(iopts.IOPT_MASTER_ON_ADJ_2),
               water_time_decode_signed(iopts.IOPT_MASTER_OFF_ADJ_2), last_time)

(***************************************************************************)
(* The control loop with a reboot command among the programs.              *)
(***************************************************************************)
InitReboot ==
    /\ InitEngine
    /\ InitSide
    /\ iopts = Opts0
    /\ attrib = Attrib0
    /\ nvdata = NvData0
    /\ \E name \in {NameReboot, NameRebootNow},
          w \in {<<3, Minute0 + 5>>, <<10, Minute0 + 1>>, <<3, Minute0 + 2>>} :
          progs = <<Prog(NameWater, <<w[1]>>, {w[2]}),
                    Prog(name, <<>>, {Minute0})>>
    /\ t_end = T0 + 120 + MaxTicks
    /\ ext = 0

NextReboot == Tick \/ ManualStart

SpecReboot == InitReboot /\ [][NextReboot]_vars

\* C10: a safe reboot happens only on a tick with now > reboot_timer, with
\* program_busy = 0 and with no program matching at now + 60; a reboot that
\* is not safe happens, with cause TIMER, on every tick with now >
\* reboot_timer, whatever program_busy is.
C10_Reboot ==
    /\ rebooted = "safe" =>
           /\ rt.safe_reboot = 1
           /\ last_time > rt.reboot_timer
           /\ rt.program_busy = 0
           /\ \A pid \in 1 .. Len(progs) : ~check_match(progs[pid], last_time + 60)
    /\ (pc = "tick" /\ rt.safe_reboot = 0 /\ rt.reboot_timer # 0
           /\ last_time > rt.reboot_timer) =>
           rebooted = "timer" /\ nvdata.reboot_cause = REBOOT_CAUSE_TIMER
    /\ rebooted = "timer" => rt.safe_reboot = 0 /\ last_time > rt.reboot_timer

\* a safe reboot that had to wait: the timer ran out seconds ago
C10_Witness ==
    rebooted = "safe" /\ last_time > rt.reboot_timer + 2

\* a reboot by the timer while a program is running
C10_WitnessTimer ==
    rebooted = "timer" /\ rt.program_busy = 1

(***************************************************************************)
(* The control loop: rain delay.                                           *)
(***************************************************************************)
\* C11: after the rain-delay step of every tick, rain_delayed = 1 iff
\* rd_stop_time > now; the flag changes in that step only (not later in the
\* tick, not between ticks); and each change saves the NV data and pushes
\* exactly one RAINDELAY notification, carrying the new state, in the same
\* tick, while a tick without a change pushes none.
C11_RainDelay ==
    [][/\ pc' # "tick" => rain_delayed' = rain_delayed
       /\ pc' = "tick" =>
              /\ obs'.rd_before = rain_delayed
              /\ rain_delayed' = obs'.rd_step
              /\ nvdata'.rd_stop_time = obs'.stop_step
              /\ obs'.rd_step = 1 <=> obs'.stop_step > last_time'
              /\ obs'.rd_step # obs'.rd_before =>
                     /\ obs'.nv_saves = 1
                     /\ obs'.rd_notes = <<obs'.rd_step>>
              /\ obs'.rd_step = obs'.rd_before => obs'.rd_notes = <<>>]_vars

\* a rain delay that was started by a tick is stopped by a later tick
C11_Witness ==
    /\ pc = "tick" /\ obs.rd_before = 1 /\ obs.rd_step = 0
    /\ obs.rd_notes = <<0>> /\ last_time >= nvdata.rd_stop_time

(***************************************************************************)
(* The control loop with binary sensors.  The pins read as they please on  *)
(* every tick.  A short run has both sensors and a program of 8 s; a run   *)
(* of scenario length has a rain sensor and a program of 120 s; a long run *)
(* has a rain sensor with an on delay of one minute and no program.        *)
(***************************************************************************)
SensorOpts(type1, option1, on_delay1, type2) ==
    [Opts0 EXCEPT !.IOPT_SENSOR1_TYPE = type1,
                  !.IOPT_SENSOR1_OPTION = option1,
                  !.IOPT_SENSOR1_ON_DELAY = on_delay1,
                  !.IOPT_SENSOR2_TYPE = type2]

InitSensor ==
    /\ InitEngine
    /\ InitSide
    /\ nvdata = NvData0
    /\ ext = MaxExt
    /\ \/ /\ \E igs \in {{}, {0}} : attrib = [Attrib0 EXCEPT !.igs = igs]
          /\ iopts \in {SensorOpts(SENSOR_TYPE_RAIN, 0, 0, SENSOR_TYPE_NONE),
                        SensorOpts(SENSOR_TYPE_SOIL, 1, 0, SENSOR_TYPE_RAIN)}
          /\ progs = <<Prog(NameWater, <<8>>, {Minute0})>>
          /\ t_end = T0 + MaxTicks
       \/ /\ attrib = Attrib0
          /\ iopts = SensorOpts(SENSOR_TYPE_RAIN, 1, 0, SENSOR_TYPE_NONE)
          /\ progs = <<Prog(NameWater, <<120>>, {Minute0})>>
          /\ t_end = T0 + 31 + MaxTicks
       \/ /\ attrib = Attrib0
          /\ iopts = SensorOpts(SENSOR_TYPE_RAIN, 1, 1, SENSOR_TYPE_NONE)
          /\ progs = <<>>
          /\ t_end = T0 + 60 + MaxTicks

NextSensor == Tick

SpecSensor == InitSensor /\ [][NextSensor]_vars

\* the delay the claim names: max(minutes * 60, 5)
MaxDelay(minutes) == IF minutes * 60 > 5 THEN minutes * 60 ELSE 5

\* what the claim says of one sensor: sn is the sensor after the tick at
\* now, before its active bit before the tick, since the tick from which
\* the raw input has read as it reads now
SensorAsClaimed(sn, before, since, on_delay, off_delay, now) ==
    /\ (before = 0 /\ sn.active = 1) =>
           /\ sn.raw = 1
           /\ sn.on_timer = since + MaxDelay(on_delay)
           /\ now > sn.on_timer
    /\ (before = 1 /\ sn.active = 0) =>
           /\ sn.raw = 0
           /\ now - since > MaxDelay(off_delay)
    /\ sn.active # before => now - since > 5

\* C12: the active bit of a rain or soil sensor changes from 0 to 1 only on
\* a tick where the raw input has read active on every tick since on_timer
\* was armed, with on_timer = arming tick + max(on_delay * 60, 5) and now >
\* on_timer; it changes from 1 to 0 only after the raw input has read
\* inactive for more than max(off_delay * 60, 5) seconds; a raw change
\* shorter than 5 seconds never changes it.
C12_SensorDebounce ==
    pc = "tick" =>
        /\ SensorAsClaimed(sensor1, obs.act1_before, obs.raw1_since,
                           iopts.IOPT_SENSOR1_ON_DELAY,
                           iopts.IOPT_SENSOR1_OFF_DELAY, last_time)
        /\ SensorAsClaimed(sensor2, obs.act2_before, obs.raw2_since,
                           iopts.IOPT_SENSOR2_ON_DELAY,
                           iopts.IOPT_SENSOR2_OFF_DELAY, last_time)

\* sensor 1 goes active after its on delay of a minute, the input having
\* chattered before
C12_Witness ==
    /\ pc = "tick" /\ obs.act1_before = 0 /\ sensor1.active = 1
    /\ iopts.IOPT_SENSOR1_ON_DELAY = 1 /\ obs.raw1_since > T0 + 2

\* sensor 1 goes inactive again
C12_WitnessOff ==
    pc = "tick" /\ obs.act1_before = 1 /\ sensor1.active = 0

(***************************************************************************)
(* The control loop with the single program of scenario S1: station 0,     *)
(* sequential, 60 s, matching at T0.                                       *)
(***************************************************************************)
InitSingle ==
    /\ InitEngine
    /\ InitSide
    /\ \E sdt \in {120, 122} :
          iopts = [Opts0 EXCEPT !.IOPT_STATION_DELAY_TIME = sdt]
    /\ \E seq \in {{0}, Stations} : attrib = [Attrib0 EXCEPT !.seq = seq]
    /\ nvdata = NvData0
    /\ progs = <<Prog(NameWater, <<60>>, {Minute0})>>
    /\ t_end = T0 + 60 + MaxTicks
    /\ ext = MaxExt

NextSingle == Tick

SpecSingle == InitSingle /\ [][NextSingle]_vars

\* C13: with one tick per second from the match at T0, the entry starts at
\* T0 + 1; bit 0 is 0 at tick T0, 1 on the ticks T0 + 1 .. T0 + 60 and 0
\* from tick T0 + 61; from then on lastrun is station 0, program 1,
\* duration 60, end time T0 + 61, the queue is empty and program_busy is 0.
C13_SingleProgram ==
    (pc = "tick" /\ obs.steady) =>
        /\ last_time = T0 =>
               /\ rt.nqueue = 1 /\ rt.queue[0].sid = 0
               /\ rt.queue[0].st = T0 + 1 /\ rt.queue[0].dur = 60
               /\ rt.station_bits[0] = 0
        /\ (T0 + 1 <= last_time /\ last_time <= T0 + 60) =>
               rt.station_bits[0] = 1 /\ rt.program_busy = 1
        /\ last_time >= T0 + 61 =>
               /\ rt.station_bits[0] = 0
               /\ rt.lastrun = [station |-> 0, program |-> 1, duration |-> 60,
                                endtime |-> T0 + 61]
               /\ rt.nqueue = 0
               /\ rt.program_busy = 0

\* the tick after the one that turned the station off, every tick so far a
\* second after the one before
C13_Witness ==
    /\ pc = "tick" /\ obs.steady /\ last_time = T0 + 62
    /\ rt.lastrun.endtime = T0 + 61 /\ rt.nqueue = 0

\* Scenario S4: the rain sensor with no delays, the program of 120 s whose
\* station 0 started at RunStart, one tick per second, and a raw input that
\* read inactive up to the tick before RunStart + 30 and active from there
\* up to now
RunStart == T0 + 1

RainCutsRun(now) ==
    /\ pc = "tick" /\ obs.steady /\ last_time = now
    /\ iopts.IOPT_SENSOR1_TYPE = SENSOR_TYPE_RAIN
    /\ iopts.IOPT_SENSOR1_ON_DELAY = 0
    /\ Len(progs) = 1 /\ progs[1].durations[0] = 120
    /\ sensor1.raw = 1 /\ obs.raw1_since = RunStart + 30
    /\ obs.raw1_changes = 1

\* C14, as stated: sensor1_active is 1 at tick T + 35, the pass of dynamic
\* events turns the running station 0 off, and lastrun.duration is in
\* 30 .. 36.
C14_ActiveAtT35 ==
    RainCutsRun(RunStart + 35) =>
        /\ sensor1.active = 1
        /\ rt.station_bits[0] = 0
        /\ rt.lastrun.station = 0 /\ rt.lastrun.duration \in 30 .. 36

\* C14, amended: sensor1_active is still 0, and station 0 still on, at tick
\* T + 35; at tick T + 36, the first with now > on_timer = T + 35,
\* sensor1_active is 1, the pass of dynamic events of that tick has turned
\* station 0 off and dequeued its entry, and lastrun is station 0, program
\* 1, duration 36, end time T + 36.
C14_ActiveAtT36 ==
    /\ RainCutsRun(RunStart + 35) =>
           /\ sensor1.active = 0 /\ sensor1.on_timer = RunStart + 35
           /\ rt.station_bits[0] = 1
    /\ RainCutsRun(RunStart + 36) =>
           /\ sensor1.active = 1
           /\ rt.station_bits[0] = 0
           /\ rt.nqueue = 0
           /\ rt.lastrun = [station |-> 0, program |-> 1, duration |-> 36,
                            endtime |-> RunStart + 36]

\* the tick at T + 36 of the scenario
C14_Witness == RainCutsRun(RunStart + 36) /\ sensor1.active = 1

(***************************************************************************)
(* The flow sensor on its own: flow_poll is called with the pin as read,   *)
(* at most once in a millisecond, and the millisecond clock moves on in    *)
(* between.                                                                *)
(***************************************************************************)
loop == <<rt, last_time, last_minute, enabled, rain_delayed, sensor1, sensor2,
          rebooted, pc, pre, after_master, shared, iopts, attrib, progs,
          nvdata, ext, t_end, old_status, obs>>

\* the steps of the millisecond clock between two calls
FlowSteps == {500, FlowWait + 500}

FlowClock ==
    /\ flow.steps < MaxFlowSteps
    /\ \E dt \in FlowSteps :
          flow' = [flow EXCEPT !.millis = @ + dt, !.steps = @ + 1,
                               !.polled = FALSE]
    /\ UNCHANGED <<loop, files, calc>>

FlowPoll ==
    /\ ~flow.polled
    /\ flow.flow_count < MaxPulses
    /\ \E curr_flow_state \in {0, 1} :
          flow' = [flow_poll(flow, curr_flow_state, flow.millis)
                      EXCEPT !.polled = TRUE,
                             !.samples = Append(@, curr_flow_state)]
    /\ UNCHANGED <<loop, files, calc>>

InitFlow ==
    /\ InitRest
    /\ \E b \in {0, FlowBase} : flow = [Flow0 EXCEPT !.millis = b]
    /\ files = Files0
    /\ calc = Calc0

NextFlow == FlowClock \/ FlowPoll

SpecFlow == InitFlow /\ [][NextFlow]_vars

\* the four falling edges of the scenario, the first at millisecond b
PulsesAt(b) ==
    flow.pulses = <<b, b + FlowWait + 1000, b + FlowWait + 2000,
                    b + FlowWait + 3000>>

C15_WitnessLater == PulsesAt(FlowBase) /\ flow.flow_gallons = 4

(***************************************************************************)
(* The reboot command, with the control loop running on: do_loop is called *)
(* again and again, so that a tick that can happen does happen.            *)
(***************************************************************************)
InitRebootLive ==
    /\ InitEngine
    /\ InitSide
    /\ iopts = Opts0
    /\ attrib = Attrib0
    /\ nvdata = NvData0
    /\ \E w \in {<<3, Minute0 + 5>>, <<3, Minute0 + 2>>} :
          progs = <<Prog(NameWater, <<w[1]>>, {w[2]}),
                    Prog(NameReboot, <<>>, {Minute0})>>
    /\ t_end = T0 + 120 + MaxTicks
    /\ ext = 0

\* A step of Tick, told by do_loop's clock: the steps of Tick are the steps
\* that move last_time, and Tick can be taken whenever the controller has
\* not rebooted and the clock has not run out.
TickTaken ==
    /\ rebooted = "no"
    /\ pc \in {"boot", "tick", "http"}
    /\ \E dt \in 1 .. MaxStep :
          /\ TickTime(dt) <= t_end
          /\ (last_time = 0 => dt = 1)
          /\ last_time' = TickTime(dt)

SpecRebootLive == InitRebootLive /\ [][NextReboot]_vars /\ WF_last_time(TickTaken)

\* no program matches at the minute of t or later, as far as the clock goes
NoMatchFrom(t) ==
    \A pid \in 1 .. Len(progs), m \in (t \div 60) .. ((t_end \div 60) + 1) :
        ~check_match(progs[pid], m * 60)

\* the state after a tick of scenario S6: ':>reboot' has matched at T0
SafeRebootArmed ==
    /\ pc = "tick"
    /\ rt.safe_reboot = 1
    /\ rt.reboot_timer = T0 + RebootDelay

\* the queue has drained, no program will match, and the clock goes on
\* beyond the reboot timer
DrainedForGood ==
    /\ rebooted = "no"
    /\ rt.safe_reboot = 1
    /\ rt.reboot_timer = T0 + RebootDelay
    /\ rt.nqueue = 0
    /\ NoMatchFrom(last_time)
    /\ last_time < t_end
    /\ rt.reboot_timer < t_end

\* C16: after ':>reboot' has matched at T (safe_reboot = 1, reboot_timer =
\* T + 65), a tick reboots if and only if now > T + 65, program_busy = 0 and
\* no program matches at now + 60, so that the reboot is at the first such
\* tick; and once the queue has drained and no program matches any more,
\* the reboot follows, unless a station is queued again
C16_SafeReboot ==
    /\ [](SafeRebootArmed =>
            (rebooted = "safe" <=>
                /\ last_time > T0 + RebootDelay
                /\ rt.program_busy = 0
                /\ \A pid \in 1 .. Len(progs) :
                       ~check_match(progs[pid], last_time + 60)))
    /\ [](rebooted = "safe" => SafeRebootArmed)
    /\ (DrainedForGood ~> (rebooted = "safe" \/ rt.nqueue > 0))

\* the reboot had to wait for a program that was to match within a minute
\* and then for its run
C16_Witness ==
    /\ rebooted = "safe"
    /\ SafeRebootArmed
    /\ last_time >= T0 + 120
    /\ rt.lastrun.endtime > T0 + 120

(***************************************************************************)
(* The control loop with more stations to enqueue than the queue holds.   *)
(***************************************************************************)
InitFull ==
    /\ InitEngine
    /\ InitSide
    /\ iopts = Opts0
    /\ nvdata = NvData0
    /\ \/ /\ attrib = Attrib0
          /\ progs = <<Prog(NameWater, <<2, 5, 5, 3>>, {Minute0}),
                       Prog(NameWater, <<3, 4, 6, 1>>, {Minute0}),
                       Prog(NameReboot, <<>>, {Minute0})>>
          /\ t_end = T0 + MaxTicks
       \/ /\ attrib = [Attrib0 EXCEPT !.seq = Stations]
          /\ progs = <<Prog(NameWater, <<31, 30, 30>>, {Minute0}),
                       Prog(NameWater, <<4, 4, 4, 4>>, {Minute0 + 1}),
                       Prog(NameWater, <<1, 0, 2>>, {Minute0 + 1}),
                       Prog(NameRebootNow, <<>>, {Minute0 + 1})>>
          /\ t_end = T0 + 60 + MaxTicks
    /\ ext = MaxExt

NextFull == Tick

SpecFull == InitFull /\ [][NextFull]_vars

\* the programs and stations a pass at time t has to enqueue, in the order
\* of the pass, as pairs <<pid, sid>>
PassPairs(t) ==
    SelectSeq([k \in 1 .. (Len(progs) * NumStations) |->
                  <<(k - 1) \div NumStations, (k - 1) % NumStations>>],
              LAMBDA pr :
                  /\ check_match(progs[pr[1] + 1], t)
                  /\ progs[pr[1] + 1].name = NameWater
                  /\ progs[pr[1] + 1].durations[pr[2]] # 0)

\* the pass of the last tick took the first of the pairs, as many as the
\* queue had room for, left the entries it found as they were, and every
\* entry it added has a start time
PassTook(before, after, pairs) ==
    /\ after.nqueue = IF before.nqueue + Len(pairs) <= QSize
                      THEN before.nqueue + Len(pairs) ELSE QSize
    /\ \A i \in Slots :
          /\ i < before.nqueue => after.queue[i] = before.queue[i]
          /\ (i >= before.nqueue /\ i < after.nqueue) =>
                /\ after.queue[i].pid = pairs[i - before.nqueue + 1][1] + 1
                /\ after.queue[i].sid = pairs[i - before.nqueue + 1][2]
                /\ after.queue[i].dur =
                       progs[after.queue[i].pid].durations[after.queue[i].sid]
                /\ after.queue[i].st # 0

\* a reboot command among the matching programs was carried out
PassCommands(after, t) ==
    \A pid \in 1 .. Len(progs) :
        (check_match(progs[pid], t) /\ progs[pid].name # NameWater) =>
            after.reboot_timer = t + RebootDelay

\* C17: when the queue is full during a match pass, the enqueue that does
\* not fit is dropped and the entries in the queue stay as they are, the
\* pass goes on with the remaining stations and programs, and every entry
\* enqueued in the pass has a non-zero start time after schedule_all_stations
\* of the same tick
C17_QueueFull ==
    (pc = "tick" /\ obs.matched) =>
        /\ PassTook(obs.q_before, obs.q_after, PassPairs(last_time))
        /\ PassCommands(obs.q_after, last_time)

\* a pass that found entries in the queue, added some, and had to drop some
C17_Witness ==
    /\ pc = "tick" /\ obs.matched
    /\ obs.q_before.nqueue > 0
    /\ obs.q_after.nqueue > obs.q_before.nqueue
    /\ obs.q_before.nqueue + Len(PassPairs(last_time)) > QSize
    /\ obs.q_after.reboot_timer = last_time + RebootDelay

\* a pass from an empty queue that had to drop some
C17_WitnessBoot ==
    /\ pc = "tick" /\ obs.matched
    /\ obs.q_before.nqueue = 0
    /\ Len(PassPairs(last_time)) > QSize

(***************************************************************************)
(* The controller at boot: options_setup finds the data files in any state *)
(* an earlier firmware or an interrupted reset can have left them in.      *)
(***************************************************************************)
FwBytes == {0, OS_FW_VERSION - 1, OS_FW_VERSION, OS_FW_VERSION + 1, 255}

BootCauses ==
    {REBOOT_CAUSE_NONE, REBOOT_CAUSE_RESET, REBOOT_CAUSE_TIMER,
     REBOOT_CAUSE_POWERON}

InitBoot ==
    /\ InitRest
    /\ flow = Flow0
    /\ calc = Calc0
    /\ \E io \in BOOLEAN, fw \in FwBytes, done \in BOOLEAN,
          cause \in BootCauses :
          files = [Files0 EXCEPT !.iopts = io,
                                 !.fw = IF io THEN fw ELSE 0,
                                 !.done = done,
                                 !.cause = cause]

\* do_setup: os.options_setup()
OptionsSetup ==
    /\ files.pc = "off"
    /\ files' = [options_setup([files EXCEPT !.written = {}])
                    EXCEPT !.at_boot = [iopts |-> files.iopts, fw |-> files.fw,
                                        done |-> files.done],
                           !.boots = @ + 1,
                           !.pc = "up"]
    /\ UNCHANGED <<loop, flow, calc>>

\* the power is cut and comes back; the controller leaves a reboot cause in
\* nvcon.dat or not
PowerCycle ==
    /\ files.pc = "up"
    /\ files.boots < MaxBoots
    /\ \E cause \in {files.cause, REBOOT_CAUSE_TIMER} :
          files' = [files EXCEPT !.cause = cause, !.pc = "off"]
    /\ UNCHANGED <<loop, flow, calc>>

NextBoot == OptionsSetup \/ PowerCycle

SpecBoot == InitBoot /\ [][NextBoot]_vars

\* the firmware version byte that options_setup read
FwRead == file_read_byte(files.at_boot.iopts, files.at_boot.fw)

C18_WitnessReset ==
    /\ files.pc = "up"
    /\ files.at_boot.done
    /\ files.at_boot.iopts /\ FwRead = OS_FW_VERSION - 1
    /\ files.reset

(***************************************************************************)
(* A factory reset that is cut short: the process stops after some of the  *)
(* writes of factory_reset, and the controller boots again.                *)
(***************************************************************************)
\* do_setup: os.options_setup(), the process stopping after the first k
\* writes of factory_reset
OptionsSetupStopped ==
    /\ files.pc = "off"
    /\ files.boots < MaxBoots
    /\ file_read_byte(files.iopts, files.fw) < FwVersionValid \/ ~files.done
    /\ \E k \in 0..(Len(ResetSteps) - 1) :
          files' = [FactoryResetUpTo([files EXCEPT !.written = {}], k)
                       EXCEPT !.at_boot = [iopts |-> files.iopts,
                                           fw |-> files.fw,
                                           done |-> files.done],
                              !.boots = @ + 1,
                              !.pending = IF files.done THEN "version"
                                          ELSE "no_done"]
    /\ UNCHANGED <<loop, flow, calc>>

NextReset == OptionsSetup \/ OptionsSetupStopped \/ PowerCycle

SpecReset == InitBoot /\ [][NextReset]_vars

\* C37: done.dat is there only when the last factory reset ran to its end,
\* and a factory reset that was cut short, whatever began it, is done again
\* by the next boot: no boot completes with a factory reset still pending
C37_ResetRepeated ==
    /\ files.pending # "none" => ~files.done
    /\ files.pc = "up" => files.pending = "none"

\* the part that holds: a factory reset begun for a missing done.dat and cut
\* short leaves done.dat missing, and the next boot resets again
ResetRepeatedWithoutDone ==
    files.pending = "no_done" => (~files.done /\ files.pc = "off")

\* a boot that followed a factory reset cut short after iopts.dat, found the
\* version of the build and done.dat, and loaded the files
ResetNotRepeated ==
    /\ files.pc = "up"
    /\ files.pending = "version"
    /\ ~files.reset
    /\ files.at_boot.done /\ files.at_boot.fw = OS_FW_VERSION

(***************************************************************************)
(* The conversions of utils.cpp, called on their own: one call in a run.   *)
(***************************************************************************)
\* minutes of the day for sunrise and sunset
SunTimes == {0, 1, 360, 719, 1080, 1439}

\* 16-bit water times: plain ones and the two special values
WaterTimes == {0, 1, 3600, 65533, 65534, 65535}

Resolve ==
    /\ calc.fn = "none"
    /\ \E v \in WaterTimes, sunrise \in SunTimes, sunset \in SunTimes,
          bits \in {ULongBits, 2 * ULongBits} :
          calc' = [Calc0 EXCEPT !.fn = "resolve", !.x = v,
                                !.sunrise = sunrise, !.sunset = sunset,
                                !.bits = bits,
                                !.ulong = water_time_resolve(v, sunrise, sunset,
                                                             bits)]
    /\ UNCHANGED <<loop, flow, files>>

Encode ==
    /\ calc.fn = "none"
    /\ \E i \in (0 - EncodeRange) .. EncodeRange :
          calc' = [Calc0 EXCEPT !.fn = "encode", !.x = i,
                                !.res = water_time_encode_signed(i),
                                !.back = water_time_decode_signed(
                                             water_time_encode_signed(i))]
    /\ UNCHANGED <<loop, flow, files>>

Decode ==
    /\ calc.fn = "none"
    /\ \E x \in 0 .. 255 :
          calc' = [Calc0 EXCEPT !.fn = "decode", !.x = x,
                                !.res = water_time_decode_signed(x),
                                !.back = water_time_encode_signed(
                                             water_time_decode_signed(x))]
    /\ UNCHANGED <<loop, flow, files>>

\* water times and watering percentages for the scaling of the match pass
ScaleTimes == {1, 9, 49, 50, 3600, 65534}
Percentages == {0, 10, 19, 20, 100, 250}

Scale ==
    /\ calc.fn = "none"
    /\ \E v \in ScaleTimes, wl \in Percentages, uw \in {0, 1},
          sunrise \in SunTimes, sunset \in SunTimes :
          calc' = [Calc0 EXCEPT
                      !.fn = "scale", !.x = v, !.wl = wl, !.uw = uw,
                      !.sunrise = sunrise, !.sunset = sunset,
                      !.ulong =
                          ScaledULong(
                              [Prog(NameWater, <<v>>, {}) EXCEPT
                                  !.use_weather = uw],
                              0, wl,
                              [NvData0 EXCEPT !.sunrise_time = sunrise,
                                              !.sunset_time = sunset],
                              ULongBits)]
    /\ UNCHANGED <<loop, flow, files>>

InitCalc ==
    /\ InitRest
    /\ flow = Flow0
    /\ files = Files0
    /\ calc = Calc0

NextCalc == Resolve \/ Encode \/ Decode \/ Scale

SpecCalc == InitCalc /\ [][NextCalc]_vars

\* the unsigned long d is the number n
ULongIs(d, n) == n >= 0 /\ ULongFits(d) /\ ULongValue(d) = n

\* C19 as stated: for sunrise and sunset in 0..1439, water_time_resolve of
\* 65534 is (sunset - sunrise) * 60, of 65535 is (sunrise + 1440 - sunset) *
\* 60, of any other v is v, and the result is a number of seconds from 0 to
\* 86400, also when sunset < sunrise
C19_WaterTimeWithinDay ==
    calc.fn = "resolve" =>
        /\ calc.x = 65534 =>
              ULongIs(calc.ulong, (calc.sunset - calc.sunrise) * 60)
        /\ calc.x = 65535 =>
              ULongIs(calc.ulong, (calc.sunrise + 1440 - calc.sunset) * 60)
        /\ calc.x < 65534 => ULongIs(calc.ulong, calc.x)
        /\ ULongFits(calc.ulong) /\ ULongValue(calc.ulong) <= 86400

\* the same with sunset not before sunrise
WaterTimeByDay ==
    (calc.fn = "resolve" /\ calc.sunset >= calc.sunrise) =>
        /\ calc.x = 65534 =>
              ULongIs(calc.ulong, (calc.sunset - calc.sunrise) * 60)
        /\ calc.x = 65535 =>
              ULongIs(calc.ulong, (calc.sunrise + 1440 - calc.sunset) * 60)
        /\ calc.x < 65534 => ULongIs(calc.ulong, calc.x)
        /\ ULongFits(calc.ulong) /\ ULongValue(calc.ulong) <= 86400

\* with sunset before sunrise: 65534 gives 2^bits less the seconds from
\* sunset to sunrise, 65535 gives more than a day
WaterTimeByNight ==
    (calc.fn = "resolve" /\ calc.sunset < calc.sunrise) =>
        /\ calc.x = 65534 =>
              calc.ulong = ULong(0 - (calc.sunrise - calc.sunset) * 60, calc.bits)
        /\ calc.x = 65534 => ~ULongFits(calc.ulong)
        /\ calc.x = 65535 =>
              /\ ULongIs(calc.ulong, (calc.sunrise + 1440 - calc.sunset) * 60)
              /\ ULongValue(calc.ulong) > 86400

\* C20: encoding the decoded x gives x for every x in 0..240; decoding the
\* encoded i gives i for every multiple of 5 in -600..600; a byte above 240
\* decodes as 240 does, a water time above 600 encodes as 240 and one
\* below -600 as 0
C20_EncodeDecode ==
    /\ (calc.fn = "decode" /\ calc.x <= 240) => calc.back = calc.x
    /\ (calc.fn = "decode" /\ calc.x > 240) =>
           calc.res = water_time_decode_signed(240) /\ calc.res = 600
    /\ (calc.fn = "encode" /\ calc.x % 5 = 0 /\ calc.x >= -600
           /\ calc.x <= 600) => calc.back = calc.x
    /\ (calc.fn = "encode" /\ calc.x > 600) => calc.res = 240
    /\ (calc.fn = "encode" /\ calc.x < -600) => calc.res = 0

\* a byte above 240 was decoded
C20_Witness == calc.fn = "decode" /\ calc.x = 255 /\ calc.res = 600

\* a negative multiple of 5 went through both conversions
C20_WitnessEncode ==
    calc.fn = "encode" /\ calc.x = -595 /\ calc.res = 1 /\ calc.back = -595

(***************************************************************************)
(* The shift register on its own: one commit of some station bits.         *)
(***************************************************************************)
\* station bits of one board
BoardBytes == {0, 1, 128, 165, 255}

InitShift ==
    /\ InitRest
    /\ flow = Flow0
    /\ files = Files0
    /\ \E bytes \in [1 .. (MaxExtBoards + 1) -> BoardBytes], en \in {0, 1} :
          calc = [Calc0 EXCEPT !.bytes = bytes, !.en = en]

Commit ==
    /\ calc.fn = "none"
    /\ calc' = [calc EXCEPT !.fn = "apply",
                            !.pins = apply_all_station_bits(calc.bytes, calc.en)]
    /\ UNCHANGED <<loop, flow, files>>

NextShift == Commit

SpecShift == InitShift /\ [][NextShift]_vars

\* the levels written to the data pin, in order
DataOut == SelectSeq(calc.pins, LAMBDA w : w[1] = "DATA")

\* the k-th bit shifted out of 8 * (MaxExtBoards + 1): the highest board
\* first, bit 7 first within a board
BitInOrder(k) ==
    BitOf(calc.bytes[MaxExtBoards + 1 - ((k - 1) \div 8)], 7 - ((k - 1) % 8))

\* C21: a commit pulls the latch low, shifts out exactly 8 * (MAX_EXT_BOARDS
\* + 1) bits, from the highest board down to board 0 and from bit 7 down to
\* bit 0 within a board, each clocked in by a rising edge, then pulls the
\* latch high; the bits are the station bits when enabled = 1 and zeros when
\* enabled = 0; the station bits in memory are not changed
C21_ShiftOut ==
    calc.fn = "apply" =>
        /\ Len(calc.pins) = 3 * 8 * (MaxExtBoards + 1) + 2
        /\ calc.pins[1] = <<"LATCH", 0>>
        /\ calc.pins[Len(calc.pins)] = <<"LATCH", 1>>
        /\ Len(SelectSeq(calc.pins, LAMBDA w : w[1] = "LATCH")) = 2
        /\ Len(DataOut) = 8 * (MaxExtBoards + 1)
        /\ \A k \in 1 .. Len(DataOut) :
              /\ DataOut[k][2] = IF calc.en = 1 THEN BitInOrder(k) ELSE 0
              /\ calc.pins[3 * k - 1] = <<"CLOCK", 0>>
              /\ calc.pins[3 * k][1] = "DATA"
              /\ calc.pins[3 * k + 1] = <<"CLOCK", 1>>
        /\ \E c \in {[Calc0 EXCEPT !.bytes = calc.bytes, !.en = calc.en]} :
              calc = [c EXCEPT !.fn = "apply", !.pins = calc.pins]

\* a commit of station bits with the controller enabled: the first bit out
\* is bit 7 of the highest board, the last is bit 0 of board 0
C21_Witness ==
    /\ calc.fn = "apply" /\ calc.en = 1
    /\ calc.bytes[MaxExtBoards + 1] = 128 /\ calc.bytes[1] = 1
    /\ DataOut[1][2] = 1 /\ DataOut[2][2] = 0
    /\ DataOut[Len(DataOut)][2] = 1

\* a commit with the controller disabled
C21_WitnessDisabled ==
    /\ calc.fn = "apply" /\ calc.en = 0
    /\ calc.bytes[1] = 255
    /\ \A k \in 1 .. Len(DataOut) : DataOut[k][2] = 0

(***************************************************************************)
(* Manual starts under dynamic events.  A program switch on sensor 1 (and  *)
(* a rain sensor or a second switch on sensor 2) starts programs with      *)
(* program id 254; the controller can be disabled between ticks and a rain *)
(* delay can be in force.  In the last family a manual start is followed   *)
(* by a program that matches a minute later, under rain delay.             *)
(***************************************************************************)
InitSwitch ==
    /\ InitEngine
    /\ InitSide
    /\ \E seq \in {{}, Stations} : attrib = [Attrib0 EXCEPT !.seq = seq]
    /\ \/ /\ iopts = SensorOpts(SENSOR_TYPE_PSWITCH, 0, 0, SENSOR_TYPE_RAIN)
          /\ progs = <<Prog(NameWater, <<6, 3>>, {})>>
          /\ nvdata = NvData0
          /\ ext = MaxExt
          /\ t_end = T0 + 7
       \/ /\ iopts = SensorOpts(SENSOR_TYPE_PSWITCH, 0, 0, SENSOR_TYPE_NONE)
          /\ progs = <<Prog(NameWater, <<4, 3>>, {})>>
          /\ nvdata = [NvData0 EXCEPT !.rd_stop_time = T0 + 9]
          /\ ext = 0
          /\ t_end = T0 + 6
       \/ /\ iopts = SensorOpts(SENSOR_TYPE_PSWITCH, 0, 0, SENSOR_TYPE_PSWITCH)
          /\ progs = <<Prog(NameWater, <<4, 3>>, {}),
                       Prog(NameWater, <<0, 0, 5>>, {Minute0})>>
          /\ nvdata = NvData0
          /\ ext = MaxExt
          /\ t_end = T0 + 5
       \/ /\ iopts = Opts0
          /\ progs = <<Prog(NameWater, <<70>>, {}),
                       Prog(NameWater, <<5, 5, 5>>, {Minute0 + 1})>>
          /\ nvdata = [NvData0 EXCEPT !.rd_stop_time = T0 + 63]
          /\ ext = 0
          /\ t_end = T0 + 64

NextSwitch == Tick \/ SetEnabled \/ ManualStart

SpecSwitch == InitSwitch /\ [][NextSwitch]_vars

\* the queue slots that hold entries of manual starts
ManualEntries(r) ==
    {i \in Slots : i < r.nqueue /\ r.queue[i].pid >= FirstManualPid}

\* a pass of dynamic events from a to b has left every manual entry, its
\* station bit and the last run of a manual start as they were
ManualKept(a, b) ==
    /\ \A i \in ManualEntries(a) :
          /\ \E j \in ManualEntries(b) : b.queue[j] = a.queue[i]
          /\ b.station_bits[a.queue[i].sid] = a.station_bits[a.queue[i].sid]
    /\ b.lastrun # a.lastrun => b.lastrun.program < FirstManualPid

\* the program switch has fired on the tick that ends in the next state
SwitchFired ==
    \/ iopts.IOPT_SENSOR1_TYPE = SENSOR_TYPE_PSWITCH /\ sensor1'.hist % 16 = 3
    \/ iopts.IOPT_SENSOR2_TYPE = SENSOR_TYPE_PSWITCH /\ sensor2'.hist % 16 = 3

\* over one step, a manual entry stays in the queue unless its time is over
\* or all stations are reset, and a last run of a manual start is recorded
\* only for an entry whose time is over
ManualEnds ==
    /\ \A i \in ManualEntries(rt) :
          \/ \E j \in ManualEntries(rt') : rt'.queue[j] = rt.queue[i]
          \/ pc' = "tick" /\ last_time' >= rt.queue[i].st + rt.queue[i].dur
          \/ pc' = "tick" /\ SwitchFired
          \/ pc' = "http" /\ enabled' = enabled
    /\ (rt'.lastrun # rt.lastrun /\ rt'.lastrun.program >= FirstManualPid) =>
          \E i \in ManualEntries(rt) :
              /\ rt.queue[i].sid = rt'.lastrun.station
              /\ rt'.lastrun.endtime >= rt.queue[i].st + rt.queue[i].dur

C22_WitnessSensor ==
    /\ pc = "tick" /\ sensor2.active = 1
    /\ iopts.IOPT_SENSOR2_TYPE = SENSOR_TYPE_RAIN
    /\ \E i \in ManualEntries(rt) :
          /\ rt.station_bits[rt.queue[i].sid] = 1
          /\ last_time > rt.queue[i].st + 1

\* a manually started station runs under a rain delay that has just turned
\* off the stations of a matched program
C22_WitnessDelay ==
    /\ pc = "tick" /\ rain_delayed = 1 /\ obs.matched
    /\ obs.q_after.nqueue > obs.q_before.nqueue
    /\ rt.nqueue < obs.q_after.nqueue
    /\ \E i \in ManualEntries(rt) : rt.station_bits[rt.queue[i].sid] = 1

(***************************************************************************)
(* The start times the scheduler assigns, on the scheduler taken alone.    *)
(***************************************************************************)
\* entry i of the queue before the call is one the scheduler is to assign
ToAssign(i) == i < pre.nqueue /\ pre.queue[i].st = 0 /\ pre.queue[i].dur # 0

\* entry i is scheduled sequentially
OnSeqClock(i) ==
    pre.queue[i].sid \in attrib.seq /\ iopts.IOPT_REMOTE_EXT_MODE = 0

\* what the sequential clock has advanced by before entry i is reached
RECURSIVE SeqAdvance(_)
SeqAdvance(i) ==
    IF i = 0 THEN 0
    ELSE SeqAdvance(i - 1) +
         (IF ToAssign(i - 1) /\ OnSeqClock(i - 1)
          THEN pre.queue[i - 1].dur + StationDelay ELSE 0)

\* what the concurrent clock has advanced by before entry i is reached
ConAdvance(i) ==
    Cardinality({j \in 0 .. (i - 1) : ToAssign(j) /\ ~OnSeqClock(j)})

\* the sequential start time the call begins with
FirstSeqStart ==
    IF pre.last_seq_stop_time > last_time
    THEN pre.last_seq_stop_time + StationDelay
    ELSE last_time + 1

\* C23: schedule_all_stations(now) assigns a start time to exactly the
\* entries with start_time = 0 and duration # 0, in queue order, and leaves
\* every other entry unchanged: a sequential station with remote extension
\* mode off gets the running seq_start, which then advances by duration +
\* station_delay; any other entry gets the running con_start, which starts
\* at now + 1 and advances by 1.
C23_StartTimes ==
    pc \in {"once", "twice"} =>
        /\ rt.nqueue = pre.nqueue
        /\ \A i \in Slots :
              IF ToAssign(i)
              THEN rt.queue[i] =
                       [pre.queue[i] EXCEPT !.st =
                           IF OnSeqClock(i)
                           THEN FirstSeqStart + SeqAdvance(i)
                           ELSE last_time + 1 + ConAdvance(i)]
              ELSE rt.queue[i] = pre.queue[i]

\* two sequential 30 s stations with a station delay of 10 s get T + 1 and
\* T + 41
C23_Witness ==
    /\ pc = "once" /\ StationDelay = 10
    /\ pre.queue[0].st = 0 /\ pre.queue[1].st = 0
    /\ rt.queue[0].dur = 30 /\ rt.queue[1].dur = 30
    /\ rt.queue[0].st = last_time + 1 /\ rt.queue[1].st = last_time + 41

\* a sequential and two concurrent entries behind an entry marked for
\* removal: the concurrent ones are a second apart
C23_WitnessMixed ==
    /\ pc = "once" /\ rt.nqueue = 3
    /\ ~ToAssign(0) /\ ToAssign(1) /\ ToAssign(2)
    /\ ~OnSeqClock(1) /\ ~OnSeqClock(2)
    /\ rt.queue[1].st = last_time + 1 /\ rt.queue[2].st = last_time + 2

\* the larger of two times
MaxOf(a, b) == IF a > b THEN a ELSE b

\* C24: every start time assigned by schedule_all_stations(now) is >= now +
\* 1, the first sequential start being max(now + 1, last_seq_stop_time +
\* station_delay) for every station delay from -600 to 600 and every
\* last_seq_stop_time: no entry is scheduled in the past or at time 0.
C24_NeverInPast ==
    pc \in {"once", "twice"} =>
        \A i \in Slots :
            ToAssign(i) =>
                /\ rt.queue[i].st >= last_time + 1
                /\ (OnSeqClock(i) /\ SeqAdvance(i) = 0) =>
                       rt.queue[i].st =
                           MaxOf(last_time + 1,
                                 pre.last_seq_stop_time + StationDelay)

\* the queue entries of sequential stations
SeqEntries(r) == {i \in Slots : i < r.nqueue /\ r.queue[i].sid \in attrib.seq}

\* entry b starts at least the station delay after entry a ends
ChainedAfter(a, b) == b.st >= a.st + a.dur + StationDelay

\* C25: with remote extension mode off and station delay >= 0, any two run
\* intervals of sequential stations that the scheduler has produced, in one
\* pass or in different passes, are chained: the later one starts at least
\* station_delay seconds after the earlier one ends.
C25_SeqChained ==
    (iopts.IOPT_REMOTE_EXT_MODE = 0 /\ StationDelay >= 0) =>
        \A i, j \in SeqEntries(rt) :
            (i # j /\ rt.queue[i].st # 0 /\ rt.queue[j].st # 0) =>
                \/ ChainedAfter(rt.queue[i], rt.queue[j])
                \/ ChainedAfter(rt.queue[j], rt.queue[i])

\* C26: at the end of every tick program_busy = 1 iff the runtime queue is
\* non-empty; and when program_busy = 0 every station bit (master bits
\* included) is 0, every station_qid entry is 0xFF and last_seq_stop_time
\* is 0.
C26_BusyIffQueued ==
    pc = "tick" =>
        /\ rt.program_busy = 1 <=> rt.nqueue > 0
        /\ rt.program_busy = 0 =>
              /\ \A sid \in Stations : rt.station_bits[sid] = 0
              /\ \A sid \in Stations : rt.station_qid[sid] = NoQid
              /\ rt.last_seq_stop_time = 0

\* the tick on which the last station is turned off and the queue drains
C26_Witness ==
    /\ pc = "tick" /\ rt.program_busy = 0 /\ rt.nqueue = 0
    /\ rt.lastrun.endtime = last_time
    /\ after_master.m2.program_busy = 0
    /\ \A sid \in Stations : rt.station_bits[sid] = 0

\* a tick that ends busy, with an entry that has not started yet
C26_WitnessBusy ==
    /\ pc = "tick" /\ rt.program_busy = 1 /\ rt.nqueue > 0
    /\ \E i \in Slots : i < rt.nqueue /\ rt.queue[i].st > last_time

(***************************************************************************)
(* Special program commands.  Two programs match the first minute, each    *)
(* with stations to water; their names are commands, near misses of        *)
(* commands or plain names.                                                *)
(***************************************************************************)
ProgramNames ==
    {NameWater, <<>>, NameReboot, NameRebootNow,
     NameReboot \o <<"s">>, NameRebootNow \o <<"!">>,
     NameReboot \o <<"_", "n", "o">>,
     <<":", ">", "r", "e", "b", "o", "o">>,
     <<">", "r", "e", "b", "o", "o", "t">>,
     <<":", "r", "e", "b", "o", "o", "t">>}

InitCommand ==
    /\ InitEngine
    /\ InitSide
    /\ iopts = Opts0
    /\ attrib = Attrib0
    /\ nvdata = NvData0
    /\ \E n1 \in ProgramNames, n2 \in ProgramNames :
          progs = <<Prog(n1, <<2, 3>>, {Minute0}),
                    Prog(n2, <<0, 0, 4>>, {Minute0})>>
    /\ t_end = T0 + 3
    /\ ext = MaxExt

NextCommand == Tick

SpecCommand == InitCommand /\ [][NextCommand]_vars

\* the two kinds of command names
IsRebootNow(name) == StartsWith(name, NameRebootNow)
IsReboot(name) == StartsWith(name, NameReboot) /\ ~IsRebootNow(name)
IsCommand(name) == IsReboot(name) \/ IsRebootNow(name)

\* the programs of the pass that are commands; all programs match
CommandsOf(ps) == {p \in 1 .. Len(ps) : IsCommand(ps[p].name)}

\* the last of them in the order of the pass
LastCommand(ps) == CHOOSE p \in CommandsOf(ps) : \A o \in CommandsOf(ps) : o <= p

\* C27: a matched program whose name begins with ":>reboot_now" sets
\* safe_reboot = 0 and reboot_timer = now + 65, one whose name begins with
\* ":>reboot" and not ":>reboot_now" sets safe_reboot = 1 and reboot_timer =
\* now + 65; no station of such a program is enqueued; a matched program
\* with any other name changes neither safe_reboot nor reboot_timer.
C27_RebootCommands ==
    (pc = "tick" /\ obs.matched) =>
        /\ IF CommandsOf(progs) = {}
           THEN /\ obs.q_after.safe_reboot = obs.q_before.safe_reboot
                /\ obs.q_after.reboot_timer = obs.q_before.reboot_timer
           ELSE /\ obs.q_after.safe_reboot =
                       (IF IsRebootNow(progs[LastCommand(progs)].name)
                        THEN 0 ELSE 1)
                /\ obs.q_after.reboot_timer = last_time + 65
        /\ \A i \in Slots :
              i < obs.q_after.nqueue =>
                  ~IsCommand(progs[obs.q_after.queue[i].pid].name)
        /\ \A p \in 1 .. Len(progs) :
              ~IsCommand(progs[p].name) =>
                  \E i \in Slots : /\ i < obs.q_after.nqueue
                                    /\ obs.q_after.queue[i].pid = p

\* ":>reboot_now" matched together with a watering program: the reboot is
\* armed regardless of the queue and only the other program is enqueued
C27_Witness ==
    /\ pc = "tick" /\ obs.matched
    /\ progs[1].name = NameRebootNow /\ progs[2].name = NameWater
    /\ obs.q_after.safe_reboot = 0 /\ obs.q_after.reboot_timer = T0 + 65
    /\ obs.q_after.nqueue = 1 /\ obs.q_after.queue[0].pid = 2

\* a name that begins with ":>reboot" and goes on otherwise
C27_WitnessSafe ==
    /\ pc = "tick" /\ obs.matched
    /\ progs[2].name = NameReboot \o <<"_", "n", "o">>
    /\ progs[1].name = NameWater
    /\ obs.q_after.safe_reboot = 1 /\ obs.q_after.reboot_timer = T0 + 65
    /\ obs.q_after.nqueue = 2

(***************************************************************************)
(* The minute of the match pass.  The control loop is followed over the    *)
(* first minute and into the second; each program waters one station for   *)
(* longer than that and matches the first minute, the second or both.      *)
(***************************************************************************)
MinuteSets == {{}, {Minute0}, {Minute0 + 1}, {Minute0, Minute0 + 1}}

InitMinute ==
    /\ InitEngine
    /\ InitSide
    /\ iopts = Opts0
    /\ \E seq \in {{}, Stations} : attrib = [Attrib0 EXCEPT !.seq = seq]
    /\ nvdata = NvData0
    /\ \E s1 \in MinuteSets, s2 \in MinuteSets :
          progs = <<Prog(NameWater, <<200>>, s1),
                    Prog(NameWater, <<0, 200>>, s2)>>
    /\ t_end = T0 + 62
    /\ ext = MaxExt

NextMinute == Tick

SpecMinute == InitMinute /\ [][NextMinute]_vars

\* the queue entries of program p (1, 2, ...)
EntriesOfProgram(r, p) == {i \in Slots : i < r.nqueue /\ r.queue[i].pid = p}

\* the minutes up to the minute of the last tick that program p matches
MinutesMatched(p) ==
    {m \in progs[p].starts : m >= Minute0 /\ m <= last_time \div 60}

\* C28: the match pass runs at most once per wall-clock minute, on the
\* first tick whose now/60 differs from the minute of the previous pass: a
\* program that matches minute m enqueues its stations exactly once for
\* that minute however many ticks fall inside it, and is evaluated for
\* every minute in which a tick runs.
C28_OncePerMinute ==
    /\ [](pc = "tick" =>
            \A p \in 1 .. Len(progs) :
                Cardinality(EntriesOfProgram(rt, p)) =
                    Cardinality(MinutesMatched(p)))
    /\ [][(pc' = "tick" /\ rt'.nqueue > rt.nqueue) =>
              /\ last_time' \div 60 # last_minute
              /\ last_minute = last_time \div 60
              /\ last_minute' = last_time' \div 60]_vars

\* late in the first minute, after many ticks: one entry of the program
\* that matches it
C28_Witness ==
    /\ pc = "tick" /\ last_time = T0 + 59
    /\ progs[1].starts = {Minute0, Minute0 + 1}
    /\ Cardinality(EntriesOfProgram(rt, 1)) = 1

\* in the second minute: a second entry of the program that matches both
\* minutes, one of the program that matches the second only
C28_WitnessNext ==
    /\ pc = "tick" /\ last_time = T0 + 62
    /\ progs[1].starts = {Minute0, Minute0 + 1}
    /\ progs[2].starts = {Minute0 + 1}
    /\ Cardinality(EntriesOfProgram(rt, 1)) = 2
    /\ Cardinality(EntriesOfProgram(rt, 2)) = 1

(***************************************************************************)
(* The water time of the match pass, on the scaling taken alone.           *)
(***************************************************************************)
\* an unsigned long with one more digit, in which the product with a byte
\* does not overflow
Widen(d) == d \o <<0>>

\* the water time as the claim gives it, in numbers without a width:
\* water_time_resolve(d), or its product with the percentage divided by 100
\* when the program uses weather, and nothing below the threshold
ClaimedWaterTime ==
    LET w == Widen(water_time_resolve(calc.x, calc.sunrise, calc.sunset,
                                      calc.bits))
        scaled == ULongDiv(ULongMul(w, calc.wl), 100)
    IN  IF calc.uw = 0 THEN w
        ELSE IF calc.wl < 20 /\ ULongFits(scaled) /\ ULongValue(scaled) < 10
        THEN Widen(ULong(0, calc.bits))
        ELSE scaled

\* C29: for a matched program and a station that is no master and not
\* disabled, with duration code d # 0, the match pass enqueues an entry of
\* duration wt = water_time_resolve(d) when use_weather is clear and wt =
\* floor(water_time_resolve(d) * water_percentage / 100) when it is set;
\* nothing is enqueued when wt = 0, or when use_weather is set, the
\* percentage is below 20 and wt < 10.
C29_WaterTime ==
    calc.fn = "scale" => Widen(calc.ulong) = ClaimedWaterTime

\* the same with sunset not before sunrise
C29_WaterTimeByDay ==
    (calc.fn = "scale" /\ calc.sunset >= calc.sunrise) =>
        Widen(calc.ulong) = ClaimedWaterTime

(***************************************************************************)
(* The program switch.  The samples of a lane before its first one count   *)
(* as inactive: the history of the lane is 0 at boot.                      *)
(***************************************************************************)
\* the last four samples of a lane, oldest first
LastFour(samples) ==
    [k \in 1 .. (SwitchGap - Len(samples)) |-> 0] \o samples

\* a lane triggers on the pattern inactive, inactive, active, active
LaneAsClaimed(samples, fired) == fired <=> LastFour(samples) = <<0, 0, 1, 1>>

\* C30: for each program switch lane, detect_programswitch_status sets the
\* lane's bit on a tick iff the last four raw samples of the lane, oldest
\* first, are inactive, inactive, active, active; a lane held active yields
\* one trigger, two triggers of a lane are at least 4 ticks apart, and an
\* active sample between inactive ones yields none.
C30_ProgramSwitch ==
    /\ [](pc = "tick" =>
            /\ iopts.IOPT_SENSOR1_TYPE = SENSOR_TYPE_PSWITCH =>
                  LaneAsClaimed(obs.sw1, obs.fired1)
            /\ iopts.IOPT_SENSOR2_TYPE = SENSOR_TYPE_PSWITCH =>
                  LaneAsClaimed(obs.sw2, obs.fired2)
            /\ iopts.IOPT_SENSOR1_TYPE # SENSOR_TYPE_PSWITCH => ~obs.fired1
            /\ iopts.IOPT_SENSOR2_TYPE # SENSOR_TYPE_PSWITCH => ~obs.fired2)
    /\ [][pc' = "tick" =>
              /\ obs'.fired1 => obs.gap1 >= SwitchGap - 1
              /\ obs'.fired2 => obs.gap2 >= SwitchGap - 1
              /\ (obs'.fired1 /\ obs.gap1 < SwitchGap) =>
                     obs.sw1 = <<1, 0, 0, 1>>
              /\ (Len(obs'.sw1) >= 3 /\ obs'.sw1[Len(obs'.sw1) - 1] = 1
                     /\ obs'.sw1[Len(obs'.sw1) - 2] = 1) => ~obs'.fired1
              /\ (Len(obs.sw1) >= 2 /\ obs.sw1[Len(obs.sw1)] = 1
                     /\ obs.sw1[Len(obs.sw1) - 1] = 0
                     /\ obs'.sw1[Len(obs'.sw1)] = 0) =>
                     ~obs.fired1 /\ ~obs'.fired1]_vars

\* the second trigger of lane 1, four ticks after the first
C30_Witness ==
    /\ pc = "tick" /\ obs.fired1 /\ obs.gap1 = 0
    /\ obs.sw1 = <<0, 0, 1, 1>>
    /\ sensor1.hist % 64 = 51

\* both lanes trigger on one tick
C30_WitnessBoth ==
    /\ pc = "tick" /\ obs.fired1 /\ obs.fired2
    /\ \E i \in Slots : i < rt.nqueue /\ rt.queue[i].pid = ManualPid

\* one active sample between inactive ones, and no trigger
C30_WitnessGlitch ==
    /\ pc = "tick" /\ ~obs.fired1 /\ obs.gap1 = SwitchGap
    /\ obs.sw1 = <<0, 0, 1, 0>>

(***************************************************************************)
(* The flow sensor: pulses and falling edges.  The sample before the first *)
(* poll counts as HIGH: prev_flow_state is HIGH at boot.                   *)
(***************************************************************************)
\* the measurement variables of flow_poll
FlowVars(f) ==
    <<f.flow_count, f.flow_start, f.flow_begin, f.flow_stop, f.flow_gallons>>

\* sample i of the pin is LOW and the one before it HIGH
FallingAt(samples, i) ==
    /\ samples[i] = 0
    /\ i > 1 => samples[i - 1] = 1

FallingEdges(samples) ==
    Cardinality({i \in 1 .. Len(samples) : FallingAt(samples, i)})

\* C31: flow_poll changes flow_count, flow_start, flow_begin, flow_stop and
\* flow_gallons only when the previous sample was HIGH and the current one
\* is LOW; on every such falling edge flow_count increases by exactly 1;
\* over any sequence of polls flow_count never decreases and equals the
\* number of falling edges observed.
C31_FallingEdges ==
    /\ [](flow.flow_count = FallingEdges(flow.samples))
    /\ [][/\ flow'.flow_count >= flow.flow_count
          /\ FlowVars(flow') # FlowVars(flow) =>
                /\ Len(flow'.samples) = Len(flow.samples) + 1
                /\ FallingAt(flow'.samples, Len(flow'.samples))
          /\ (/\ Len(flow'.samples) = Len(flow.samples) + 1
              /\ FallingAt(flow'.samples, Len(flow'.samples))) =>
                flow'.flow_count = flow.flow_count + 1]_vars

\* two falling edges, a rising edge and a repeated LOW among the samples
C31_Witness ==
    /\ flow.samples = <<1, 0, 0, 1, 0>>
    /\ flow.flow_count = 2

\* the first poll reads LOW
C31_WitnessFirstLow ==
    /\ flow.samples = <<0, 1, 1, 0>>
    /\ flow.flow_count = 2

(***************************************************************************)
(* The station messages.  All stations are followed; a program runs, or    *)
(* two programs that share station 0 run at once; a manual start or a rain *)
(* delay can come between two ticks, and a tick can come two seconds after *)
(* the last.                                                               *)
(***************************************************************************)
InitNotify ==
    /\ rt = [Rt0 EXCEPT !.followed = Stations]
    /\ last_time = 0
    /\ last_minute = 0
    /\ enabled = 1
    /\ rain_delayed = 0
    /\ sensor1 = SensorOff
    /\ sensor2 = SensorOff
    /\ rebooted = "no"
    /\ pc = "boot"
    /\ pre = Rt0
    /\ after_master = [m1 |-> Rt0, m2 |-> Rt0, beyond |-> FALSE]
    /\ shared = FALSE
    /\ old_status = OldStatus0
    /\ obs = Obs0
    /\ InitSide
    /\ iopts = Opts0
    /\ nvdata = NvData0
    /\ t_end = T0 + 8
    /\ \/ /\ \E seq \in {{}, Stations} : attrib = [Attrib0 EXCEPT !.seq = seq]
          /\ progs = <<Prog(NameWater, <<3, 1>>, {Minute0})>>
          /\ ext = 0
       \/ /\ attrib = [Attrib0 EXCEPT !.seq = {}]
          /\ progs = <<Prog(NameWater, <<2>>, {Minute0}),
                       Prog(NameWater, <<4>>, {Minute0})>>
          /\ ext = MaxExt

NextNotify == Tick \/ ManualStart \/ SetRainDelay

SpecNotify == InitNotify /\ [][NextNotify]_vars

\* the messages of every station alternate, an on first
Alternate == rt.misordered = {}

\* the durations logged for a station are within the time its bit was 1
LoggedWithinOn == \A sid \in Stations : rt.logged[sid] <= obs.on_secs[sid]

\* C32: for every non-master station the STATION_ON and STATION_OFF
\* messages (and station log records) strictly alternate, starting with
\* STATION_ON: a STATION_OFF with a lastrun record is emitted only for a
\* station whose bit was 1 since the previous STATION_OFF, and the sum of
\* the logged durations of a station never exceeds the number of seconds
\* its bit was 1.
C32_OnOffAlternate == Alternate /\ LoggedWithinOn

(***************************************************************************)
(* The PROGRAM_SCHED message.  Programs match in one minute; some of them  *)
(* have nothing to enqueue: their only station is disabled or a master,    *)
(* their water time is scaled to 0, the queue is full, or they are         *)
(* commands.                                                               *)
(***************************************************************************)
Weather(prog) == [prog EXCEPT !.use_weather = 1]

SchedPrograms ==
    { <<Prog(NameWater, <<3>>, {Minute0}), Prog(NameWater, <<0, 4>>, {Minute0})>>,
      <<Prog(NameWater, <<0, 4>>, {Minute0}), Prog(NameWater, <<3>>, {Minute0})>>,
      <<Prog(NameWater, <<3>>, {Minute0}),
        Weather(Prog(NameWater, <<0, 0, 9>>, {Minute0}))>>,
      <<Prog(NameWater, <<2, 5, 5, 3>>, {Minute0}),
        Prog(NameWater, <<3, 4, 6, 1>>, {Minute0}),
        Prog(NameWater, <<1>>, {Minute0})>>,
      <<Prog(NameWater, <<3>>, {Minute0}), Prog(NameReboot, <<>>, {Minute0}),
        Prog(NameWater, <<0, 0, 2>>, {Minute0 + 1})>>,
      <<Prog(NameWater, <<0, 4>>, {Minute0}),
        Weather(Prog(NameWater, <<0, 0, 9>>, {Minute0}))>> }

InitProgSched ==
    /\ InitEngine
    /\ InitSide
    /\ \E wl \in {10, 100}, m \in {0, 2} :
          iopts = [Opts0 EXCEPT !.IOPT_WATER_PERCENTAGE = wl,
                                !.IOPT_MASTER_STATION = m]
    /\ \E dis \in {{}, {1}} : attrib = [Attrib0 EXCEPT !.dis = dis]
    /\ progs \in SchedPrograms
    /\ nvdata = NvData0
    /\ t_end = T0 + 3
    /\ ext = MaxExt

NextProgSched == Tick

SpecProgSched == InitProgSched /\ [][NextProgSched]_vars

\* the pass of the last tick enqueued a station of program pid
EnqueuedOwn(pid) ==
    \E i \in Slots :
        /\ i >= obs.q_before.nqueue /\ i < obs.q_after.nqueue
        /\ obs.q_after.queue[i].pid = pid + 1

\* the pass of the last tick sent PROGRAM_SCHED for program pid
SchedSent(pid) == \E k \in 1 .. Len(obs.sched) : obs.sched[k] = pid

\* C33: in a match pass a PROGRAM_SCHED message is sent for program pid iff
\* the program matched and at least one of its own stations was enqueued
\* in this pass; a matching program that enqueues nothing sends none, even
\* when an earlier program of the pass did enqueue.
C33_ProgramSched ==
    (pc = "tick" /\ obs.matched) =>
        \A pid \in 0 .. (Len(progs) - 1) :
            SchedSent(pid) <=> (/\ check_match(progs[pid + 1], last_time)
                                /\ EnqueuedOwn(pid))

\* what the pass does: the message is sent for every matching program that
\* is no command, from the first program that enqueued a station on
SchedFromFirstEnqueue ==
    (pc = "tick" /\ obs.matched) =>
        /\ \A pid \in 0 .. (Len(progs) - 1) :
              SchedSent(pid) <=>
                  /\ check_match(progs[pid + 1], last_time)
                  /\ ~IsCommand(progs[pid + 1].name)
                  /\ \E p \in 0 .. pid : EnqueuedOwn(p)
        /\ Len(obs.sched) <= Len(progs)

(***************************************************************************)
(* turn_off_station taken alone: it is called for station 0 or 1 at T0, on *)
(* queues of up to two entries that have started or not, with the side map *)
(* of the station valid, empty or out of range, the station a master or    *)
(* not.                                                                    *)
(***************************************************************************)
TurnOffEntries == [sid : {0, 1}, pid : {1}, st : {0, T0 - 2, T0, T0 + 3}, dur : {5}]

InitTurnOff ==
    /\ \E n \in 0 .. 2, e \in [0 .. 1 -> TurnOffEntries],
          qid \in [0 .. 1 -> {0, 1, NoQid}], bit \in [0 .. 1 -> {0, 1}],
          ms \in {<<0, 0>>, <<1, 0>>, <<0, 2>>} :
          rt = [Rt0 EXCEPT
                   !.followed = Stations,
                   !.queue = [i \in Slots |-> IF i < n THEN e[i] ELSE EmptyEntry],
                   !.nqueue = n,
                   !.station_qid = [s \in Stations |->
                                       IF s <= 1 THEN qid[s] ELSE NoQid],
                   !.station_bits = [s \in Stations |->
                                        IF s <= 1 THEN bit[s] ELSE 0],
                   !.program_busy = 1,
                   !.mas = ms[1], !.mas2 = ms[2]]
    /\ last_time = T0
    /\ last_minute = T0 \div 60
    /\ enabled = 1
    /\ rain_delayed = 0
    /\ nvdata = NvData0
    /\ sensor1 = SensorOff
    /\ sensor2 = SensorOff
    /\ progs = <<>>
    /\ rebooted = "no"
    /\ pc = "turnoff"
    /\ pre = rt
    /\ after_master = [m1 |-> Rt0, m2 |-> Rt0, beyond |-> FALSE]
    /\ ext = MaxExt
    /\ shared = FALSE
    /\ t_end = T0
    /\ old_status = OldStatus0
    /\ obs = Obs0
    /\ iopts = Opts0
    /\ attrib = Attrib0
    /\ InitSide

TurnOff ==
    /\ pc = "turnoff"
    /\ \E sid \in {0, 1} :
          /\ rt' = turn_off_station(rt, sid, last_time)
          /\ obs' = [obs EXCEPT !.sid = sid]
    /\ pre' = rt
    /\ pc' = "off"
    /\ UNCHANGED <<last_time, last_minute, enabled, rain_delayed, nvdata,
                   sensor1, sensor2, iopts, attrib, progs, rebooted,
                   after_master, ext, shared, t_end, old_status>>
    /\ UNCHANGED side

NextTurnOff == TurnOff

SpecTurnOff == InitTurnOff /\ [][NextTurnOff]_vars

\* how often entry e is among the queued entries of r
TimesQueued(r, e) ==
    Cardinality({i \in Slots : i < r.nqueue /\ r.queue[i] = e})

\* b is a with the bit of station sid cleared and nothing else changed
OnlyBitCleared(a, b, sid) ==
    b = [a EXCEPT !.station_bits[sid] = 0]

\* b is a with the entry q taken out of the queue
Dequeued(a, b, q) ==
    /\ b.nqueue = a.nqueue - 1
    /\ \A e \in TurnOffEntries :
          TimesQueued(b, e) = TimesQueued(a, e) - (IF e = q THEN 1 ELSE 0)

\* no last run record, no log record and no message came with the call
NothingLogged(a, b) ==
    /\ b.lastrun = a.lastrun
    /\ b.logged = a.logged
    /\ b.notified = a.notified
    /\ b.misordered = a.misordered

\* C34: turn_off_station(sid, now) for a station whose owning entry has not
\* started (now <= start time), or for a master station, writes no lastrun
\* record and emits no LOG_STATION / STATION_OFF, yet clears the bit,
\* dequeues the entry and sets station_qid[sid] = 0xFF; when
\* station_qid[sid] is no valid queue index it only clears the bit and
\* leaves the queue, station_qid and lastrun unchanged.
C34_TurnOff ==
    pc = "off" =>
        /\ rt.station_bits[obs.sid] = 0
        /\ \A s \in Stations \ {obs.sid} :
              rt.station_bits[s] = pre.station_bits[s]
        /\ IF pre.station_qid[obs.sid] >= pre.nqueue
           THEN OnlyBitCleared(pre, rt, obs.sid)
           ELSE /\ Dequeued(pre, rt, pre.queue[pre.station_qid[obs.sid]])
                /\ rt.station_qid[obs.sid] = NoQid
                /\ (\/ last_time <= pre.queue[pre.station_qid[obs.sid]].st
                    \/ pre.mas = obs.sid + 1
                    \/ pre.mas2 = obs.sid + 1) => NothingLogged(pre, rt)

\* an entry that starts now is taken out for a station that is on
C34_Witness ==
    /\ pc = "off"
    /\ pre.station_qid[obs.sid] < pre.nqueue
    /\ pre.queue[pre.station_qid[obs.sid]].st = last_time
    /\ pre.station_bits[obs.sid] = 1
    /\ pre.mas # obs.sid + 1 /\ pre.mas2 # obs.sid + 1
    /\ pre.nqueue = 2 /\ rt.nqueue = 1

\* the side map of the station is out of range
C34_WitnessNoEntry ==
    /\ pc = "off"
    /\ pre.station_qid[obs.sid] = 1 /\ pre.nqueue = 1
    /\ pre.station_bits[obs.sid] = 1
    /\ rt.nqueue = 1

\* a master station that has a started entry
C34_WitnessMaster ==
    /\ pc = "off"
    /\ pre.mas = obs.sid + 1
    /\ pre.station_qid[obs.sid] < pre.nqueue
    /\ pre.queue[pre.station_qid[obs.sid]].st < last_time
    /\ pre.queue[pre.station_qid[obs.sid]].st > 0

(***************************************************************************)
(* The station bits on their own: one call of set_station_bit or of        *)
(* clear_all_station_bits on any bytes, the byte after the array holding   *)
(* whatever the build has put there.                                       *)
(***************************************************************************)
InitBits ==
    /\ InitRest
    /\ flow = Flow0
    /\ files = Files0
    /\ \E bytes \in [1 .. MaxBoards -> BoardBytes], beyond \in BoardBytes :
          calc = [Calc0 EXCEPT !.mem = [Mem0 EXCEPT !.bytes = bytes,
                                                    !.beyond = beyond]]

SetBit ==
    /\ calc.fn = "none"
    /\ \E sid \in 0 .. (MaxStations - 1), value \in {0, 1, 5}, ok \in BOOLEAN :
          calc' = [calc EXCEPT !.fn = "set", !.old = calc.mem,
                               !.mem = SetStationBit(calc.mem, sid, value, ok),
                               !.sid = sid, !.value = value, !.ok = ok]
    /\ UNCHANGED <<loop, flow, files>>

ClearAll ==
    /\ calc.fn = "none"
    /\ \E ok \in BOOLEAN :
          calc' = [calc EXCEPT !.fn = "clear", !.old = calc.mem,
                               !.mem = ClearAllStationBits(calc.mem, ok),
                               !.ok = ok]
    /\ UNCHANGED <<loop, flow, files>>

NextBits == SetBit \/ ClearAll

SpecBits == InitBits /\ [][NextBits]_vars

\* the bit of station sid in memory m
StationBit(m, sid) == BitOf(m.bytes[(sid \div 8) + 1], sid % 8)

\* the bit asked for
NewBit == IF calc.value # 0 THEN 1 ELSE 0

\* C35: set_station_bit(sid, value) changes at most the bit of station sid:
\* it returns 0 (unchanged) and calls nothing when the bit already equals
\* value; otherwise it flips the bit, calls the special-station switcher
\* exactly once for sid with the new value and returns 1 (set) or 255
\* (cleared); the resulting bit and the return value do not depend on
\* whether the switcher had its effect.
C35_SetStationBit ==
    calc.fn = "set" =>
        /\ \A k \in 0 .. (MaxStations - 1) :
              k # calc.sid => StationBit(calc.mem, k) = StationBit(calc.old, k)
        /\ calc.mem.beyond = calc.old.beyond
        /\ StationBit(calc.mem, calc.sid) = NewBit
        /\ IF StationBit(calc.old, calc.sid) = NewBit
           THEN /\ calc.mem.ret = 0
                /\ calc.mem.calls = <<>>
                /\ calc.mem.bytes = calc.old.bytes
           ELSE /\ calc.mem.ret = (IF NewBit = 1 THEN 1 ELSE 255)
                /\ Len(calc.mem.calls) = 1
                /\ calc.mem.calls[1][1] = calc.sid
                /\ calc.mem.calls[1][2] = NewBit

\* a bit is set although the switch had no effect
C35_Witness ==
    /\ calc.fn = "set" /\ ~calc.ok /\ calc.value = 5
    /\ calc.sid = 10
    /\ calc.old.bytes = <<165, 1, 128>> /\ calc.mem.bytes = <<165, 5, 128>>
    /\ calc.mem.ret = 1

\* a bit is cleared
C35_WitnessCleared ==
    /\ calc.fn = "set" /\ calc.value = 0 /\ calc.sid = 23
    /\ calc.old.bytes[3] = 128 /\ calc.mem.bytes[3] = 0
    /\ calc.mem.ret = 255

\* nothing to do
C35_WitnessUnchanged ==
    /\ calc.fn = "set" /\ calc.value = 1 /\ calc.sid = 0
    /\ calc.old.bytes[1] = 165 /\ calc.mem.ret = 0

\* the stations whose bit is 1 in memory m
StationsOn(m) == {k \in 0 .. (MaxStations - 1) : StationBit(m, k) = 1}

\* C36: clear_all_station_bits invokes set_bit(sid, 0) exactly for the
\* station indices of the half-open range 0 .. MAX_NUM_STATIONS and never
\* reads or writes a station-bit byte at or beyond index MAX_NUM_BOARDS;
\* afterwards every station bit is 0 and a special-station off-command was
\* issued exactly for the stations whose bit was 1 before.
C36_ClearAll ==
    calc.fn = "clear" =>
        /\ calc.mem.set_calls = [k \in 1 .. MaxStations |-> k - 1]
        /\ \A bid \in calc.mem.touched : bid < MaxBoards
        /\ calc.mem.beyond = calc.old.beyond
        /\ StationsOn(calc.mem) = {}
        /\ {calc.mem.calls[k][1] : k \in 1 .. Len(calc.mem.calls)} =
               StationsOn(calc.old)
        /\ Len(calc.mem.calls) = Cardinality(StationsOn(calc.old))
        /\ \A k \in 1 .. Len(calc.mem.calls) : calc.mem.calls[k][2] = 0

\* what holds within the array: every station bit is 0 afterwards and the
\* stations whose bit was 1 got one off-command each, in order
ClearedWithinArray ==
    calc.fn = "clear" =>
        /\ StationsOn(calc.mem) = {}
        /\ SelectSeq(calc.mem.calls, LAMBDA c : c[1] < MaxStations) =
               SelectSeq([k \in 1 .. MaxStations |-> <<k - 1, 0, calc.ok>>],
                         LAMBDA c : c[1] \in StationsOn(calc.old))
        /\ calc.mem.set_calls = [k \in 1 .. (MaxStations + 1) |-> k - 1]
        /\ calc.mem.touched = 0 .. MaxBoards
        /\ calc.mem.beyond = calc.old.beyond - (calc.old.beyond % 2)

(***************************************************************************)
(* main.cpp: check_weather, called at the end of each tick.  w is the      *)
(* record of what it reads and writes, ntz the value of os.now_tz().       *)
(***************************************************************************)
CHECK_WEATHER_TIMEOUT == 21613
CHECK_WEATHER_SUCCESS_TIMEOUT == 86400

\* the algorithms 0 and 2 take the watering percentage from the user
ManualPercentage(w) == w.use_weather = 0 \/ w.use_weather = 2

\* check_weather fetching as soon as the last success is too old, and from
\* the very second the interval since the last attempt has run out
check_weather_FetchWhenStale(w, ntz) ==
    LET v == [w EXCEPT !.ntz = ntz, !.calls = @ + 1, !.fetched = FALSE]
        stale == /\ w.checkwt_success_lasttime # 0
                 /\ ntz > w.checkwt_success_lasttime
                             + CHECK_WEATHER_SUCCESS_TIMEOUT
                 /\ ~ManualPercentage(w)
    IN  IF w.network_fails > 0 \/ w.remote_ext # 0 \/ w.program_busy # 0
        THEN v
        ELSE IF stale \/ ntz >= w.checkwt_lasttime + CHECK_WEATHER_TIMEOUT
        THEN [v EXCEPT !.checkwt_lasttime = ntz,
                       !.checkwt_success_lasttime = IF stale THEN 0 ELSE @,
                       !.water_percentage = IF stale THEN 100 ELSE @,
                       !.fetched = TRUE]
        ELSE v

check_weather(w, ntz) ==
    LET v == [w EXCEPT !.ntz = ntz, !.calls = @ + 1, !.fetched = FALSE]
    IN  IF w.network_fails > 0 \/ w.remote_ext # 0
        THEN v
        ELSE IF w.program_busy # 0
        THEN v
        ELSE IF /\ w.checkwt_success_lasttime # 0
                /\ ntz > w.checkwt_success_lasttime
                            + CHECK_WEATHER_SUCCESS_TIMEOUT
        THEN [v EXCEPT !.checkwt_success_lasttime = 0,
                       !.water_percentage =
                           IF ManualPercentage(w) THEN @ ELSE 100]
        ELSE IF \/ w.checkwt_lasttime = 0
                \/ ntz > w.checkwt_lasttime + CHECK_WEATHER_TIMEOUT
        THEN [v EXCEPT !.checkwt_lasttime = ntz, !.fetched = TRUE]
        ELSE v

\* the time of the first tick, and the number of ticks of a run
WtNow == 200000
MaxWtTicks == 3

\* the times of the last attempt and of the last success: none, long ago,
\* and about one interval before the first tick
AttemptTimes ==
    {0, 1000} \cup { WtNow - CHECK_WEATHER_TIMEOUT + d : d \in {-1, 0, 1, 100} }
SuccessTimes ==
    {0, 1000} \cup { WtNow - CHECK_WEATHER_SUCCESS_TIMEOUT + d : d \in {-1, 0, 100} }

InitWeather ==
    /\ InitRest
    /\ flow = Flow0
    /\ files = Files0
    /\ \E la \in AttemptTimes, ls \in SuccessTimes, uw \in 0 .. 3,
          wp \in {50, 100} :
          calc = [Calc0 EXCEPT !.wt = [Wt0 EXCEPT !.checkwt_lasttime = la,
                                                  !.checkwt_success_lasttime = ls,
                                                  !.use_weather = uw,
                                                  !.water_percentage = wp,
                                                  !.ntz = WtNow - 1]]

\* do_loop, the end of a tick one second after the last: check_weather()
\* with the state of the network, of the mode and of the queue as they are
CheckWeather ==
    /\ calc.wt.calls < MaxWtTicks
    /\ \E nf \in {0, 1}, re \in {0, 1}, busy \in {0, 1} :
          LET w == [calc.wt EXCEPT !.network_fails = nf, !.remote_ext = re,
                                   !.program_busy = busy]
          IN  calc' = [calc EXCEPT !.fn = "check_weather", !.wt_old = w,
                                   !.wt = check_weather(w, calc.wt.ntz + 1)]
    /\ UNCHANGED <<loop, flow, files>>

NextWeather == CheckWeather

SpecWeather == InitWeather /\ [][NextWeather]_vars

\* what holds a call of check_weather back
Suppressed(w) == w.network_fails > 0 \/ w.remote_ext # 0 \/ w.program_busy # 0

\* the last success is on record and more than a day old at the call
SuccessStale(w, ntz) ==
    /\ w.checkwt_success_lasttime # 0
    /\ ntz > w.checkwt_success_lasttime + CHECK_WEATHER_SUCCESS_TIMEOUT

WtCalled == calc.fn = "check_weather"

\* C38 as stated: a call of check_weather starts a fetch if and only if
\* nothing holds it back and either the last success is more than 86400 s
\* old with an automatic algorithm, the percentage then being reset to 100,
\* or now >= last attempt + 21613
C38_FetchAsStated ==
    WtCalled =>
        LET w == calc.wt_old
            ntz == calc.wt.ntz
            a == SuccessStale(w, ntz) /\ ~ManualPercentage(w)
            b == ntz >= w.checkwt_lasttime + CHECK_WEATHER_TIMEOUT
        IN  /\ calc.wt.fetched <=> (~Suppressed(w) /\ (a \/ b))
            /\ (~Suppressed(w) /\ a) => calc.wt.water_percentage = 100
            /\ Suppressed(w) => ~calc.wt.fetched

\* C38: a call of check_weather that is held back (network_fails > 0, remote
\* extension mode, program_busy) changes nothing and starts no fetch.
\* Otherwise, when a success is on record and more than 86400 s old, the
\* record is cleared, the percentage is reset to 100 unless the algorithm is
\* 0 or 2, and no fetch is started by that call; else a fetch is started,
\* and the time of the attempt recorded, if and only if no attempt is on
\* record or now > last attempt + 21613.
C38_Fetch ==
    WtCalled =>
        LET w == calc.wt_old
            v == calc.wt
            ntz == calc.wt.ntz
            kept == [v EXCEPT !.ntz = w.ntz, !.calls = w.calls,
                              !.fetched = w.fetched]
            due == \/ w.checkwt_lasttime = 0
                   \/ ntz > w.checkwt_lasttime + CHECK_WEATHER_TIMEOUT
        IN  /\ Suppressed(w) => (~v.fetched /\ kept = w)
            /\ (~Suppressed(w) /\ SuccessStale(w, ntz)) =>
                  /\ ~v.fetched
                  /\ v.checkwt_success_lasttime = 0
                  /\ v.checkwt_lasttime = w.checkwt_lasttime
                  /\ v.water_percentage =
                        IF ManualPercentage(w) THEN w.water_percentage ELSE 100
            /\ (~Suppressed(w) /\ ~SuccessStale(w, ntz)) =>
                  /\ v.fetched <=> due
                  /\ v.checkwt_lasttime = IF due THEN ntz ELSE w.checkwt_lasttime
                  /\ v.water_percentage = w.water_percentage
                  /\ v.checkwt_success_lasttime = w.checkwt_success_lasttime

\* a call, nothing holding it back, with the last success too old, an
\* automatic algorithm and the last attempt long ago: the percentage goes
\* from 50 to 100 and no fetch is started
C38_Witness ==
    /\ WtCalled
    /\ ~Suppressed(calc.wt_old)
    /\ SuccessStale(calc.wt_old, calc.wt.ntz)
    /\ calc.wt_old.use_weather = 1
    /\ calc.wt_old.checkwt_lasttime = 1000
    /\ calc.wt_old.water_percentage = 50
    /\ calc.wt.water_percentage = 100
    /\ ~calc.wt.fetched

\* a call exactly 21613 s after the last attempt starts no fetch
C38_WitnessOnTheSecond ==
    /\ WtCalled
    /\ ~Suppressed(calc.wt_old)
    /\ ~SuccessStale(calc.wt_old, calc.wt.ntz)
    /\ calc.wt.ntz = calc.wt_old.checkwt_lasttime + CHECK_WEATHER_TIMEOUT
    /\ ~calc.wt.fetched

\* a call one second later starts one
C38_WitnessFetch ==
    /\ WtCalled
    /\ calc.wt.ntz = calc.wt_old.checkwt_lasttime + CHECK_WEATHER_TIMEOUT + 1
    /\ calc.wt.fetched
    /\ calc.wt.checkwt_lasttime = calc.wt.ntz

\* the tick after the record of a stale success was cleared starts the fetch
C38_WitnessFetchNextTick ==
    /\ WtCalled
    /\ calc.wt.calls >= 2
    /\ calc.wt_old.checkwt_success_lasttime = 0
    /\ calc.wt_old.water_percentage = 100
    /\ calc.wt_old.checkwt_lasttime = 1000
    /\ calc.wt.fetched

(***************************************************************************)
(* OpenSprinkler.cpp: send_http_request.  h is the record of the call.  A  *)
(* read of the client gives "data" (len > 0), "none" (len <= 0, the peer   *)
(* keeping the connection open) or "closed" (len <= 0, connected() false   *)
(* from then on).                                                          *)
(***************************************************************************)
HTTP_RQT_SUCCESS == 0
HTTP_RQT_CONNECT_ERR == -2
HTTP_RQT_TIMEOUT == -3
HTTP_RQT_EMPTY_RETURN == -4

\* the timeouts of a call, in units of the time one read takes, and the
\* time after which the clock of the model stands for any later time
HttpTimeouts == {1, 2}
MaxHttpTime == 4
MaxScript == 2

ReadOutcomes == {"data", "none", "closed"}

HttpReturn(h, result) == [h EXCEPT !.pc = "done", !.result = result]

\* what the next read gives
NextRead(h) == IF h.script = <<>> THEN h.then ELSE Head(h.script)

\* up to the while loop: gethostbyname, connect, write, stoptime
http_connect(h, resolved, connected, timeout) ==
    IF ~resolved \/ ~connected
    THEN HttpReturn(h, HTTP_RQT_CONNECT_ERR)
    ELSE [h EXCEPT !.pc = "loop", !.stoptime = h.millis + timeout]

\* one turn of the while loop, the read taking one unit of time, and what
\* follows the loop when the peer has closed
http_read(h) ==
    LET len == NextRead(h)
        g == [h EXCEPT !.script = IF @ = <<>> THEN @ ELSE Tail(@),
                       !.reads = IF @ < MaxScript + MaxHttpTime THEN @ + 1 ELSE @,
                       !.turn = 1 - @,
                       !.millis = IF @ < MaxHttpTime THEN @ + 1 ELSE @,
                       !.got_data = @ \/ len = "data"]
    IN  CASE len = "closed" ->
                HttpReturn(g, IF g.got_data THEN HTTP_RQT_SUCCESS
                              ELSE HTTP_RQT_EMPTY_RETURN)
          [] len = "none" -> g
          [] OTHER -> IF g.millis > g.stoptime
                      THEN HttpReturn(g, HTTP_RQT_TIMEOUT)
                      ELSE g

Scripts ==
    UNION { [1 .. n -> {"data", "none"}] : n \in 0 .. MaxScript }

InitHttp ==
    /\ InitRest
    /\ flow = Flow0
    /\ files = Files0
    /\ \E script \in Scripts, then \in ReadOutcomes :
          calc = [Calc0 EXCEPT !.http = [Http0 EXCEPT !.script = script,
                                                      !.then = then]]

\* switch_remotestation, switch_httpstation: send_http_request(...)
HttpCall ==
    /\ calc.http.pc = "idle"
    /\ \E resolved \in BOOLEAN, connected \in BOOLEAN,
          timeout \in HttpTimeouts :
          calc' = [calc EXCEPT !.fn = "send_http_request",
                      !.http = http_connect(@, resolved, connected, timeout)]
    /\ UNCHANGED <<loop, flow, files>>

HttpRead ==
    /\ calc.http.pc = "loop"
    /\ calc' = [calc EXCEPT !.http = http_read(@)]
    /\ UNCHANGED <<loop, flow, files>>

NextHttp == HttpCall \/ HttpRead

SpecHttp == InitHttp /\ [][NextHttp]_vars

\* the call is made and the loop runs whenever a turn of it changes anything
SpecHttpLive == SpecHttp /\ WF_calc(HttpCall) /\ WF_calc(HttpRead)

\* C39: send_http_request always terminates, whatever the peer does after
\* the connect, a peer that keeps the connection open and sends nothing
\* included; its result is CONNECT_ERR, TIMEOUT, EMPTY_RETURN or SUCCESS
C39_Terminates ==
    <>(/\ calc.http.pc = "done"
       /\ calc.http.result \in {HTTP_RQT_CONNECT_ERR, HTTP_RQT_TIMEOUT,
                                 HTTP_RQT_EMPTY_RETURN, HTTP_RQT_SUCCESS})

\* the part that holds: a call returns when the peer closes or goes on
\* sending, and what it returns is one of the four results
TerminatesUnlessSilent ==
    <>(calc.http.pc = "done" \/ (calc.http.pc = "loop" /\ calc.http.then = "none"))

HttpResults ==
    calc.http.pc = "done" =>
        calc.http.result \in {HTTP_RQT_CONNECT_ERR, HTTP_RQT_TIMEOUT,
                              HTTP_RQT_EMPTY_RETURN, HTTP_RQT_SUCCESS}

\* the loop still turning after the timeout, the peer silent
SilentPastTimeout ==
    /\ calc.http.pc = "loop"
    /\ calc.http.script = <<>> /\ calc.http.then = "none"
    /\ calc.http.millis > calc.http.stoptime
    /\ ~calc.http.got_data

\* a call that returned HTTP_RQT_TIMEOUT
TimedOut ==
    calc.http.pc = "done" /\ calc.http.result = HTTP_RQT_TIMEOUT

(***************************************************************************)
(* OpenSprinkler.cpp: the RF stations.  A field of the special data is a   *)
(* sequence of characters.                                                 *)
(***************************************************************************)
DecDigits == <<"0", "1", "2", "3", "4", "5", "6", "7", "8", "9">>
HexUpper == <<"A", "B", "C", "D", "E", "F">>
HexLower == <<"a", "b", "c", "d", "e", "f">>

IndexOf(seq, c) == CHOOSE i \in 1 .. Len(seq) : seq[i] = c
In(seq, c) == \E i \in 1 .. Len(seq) : seq[i] = c

\* hex2ulong: v <<= 4 and the digit added, 0 at the first character that is
\* not a hex digit
RECURSIVE hex2ulong_from(_, _, _)
hex2ulong_from(code, i, v) ==
    IF i > Len(code) THEN v
    ELSE LET c == code[i]
         IN  IF In(DecDigits, c)
             THEN hex2ulong_from(code, i + 1, v * 16 + IndexOf(DecDigits, c) - 1)
             ELSE IF In(HexUpper, c)
             THEN hex2ulong_from(code, i + 1, v * 16 + 9 + IndexOf(HexUpper, c))
             ELSE IF In(HexLower, c)
             THEN hex2ulong_from(code, i + 1, v * 16 + 9 + IndexOf(HexLower, c))
             ELSE 0

hex2ulong(code) == hex2ulong_from(code, 1, 0)

\* parse_rfstation_code(data, &on, &off): the value returned and what on and
\* off hold after it, on0 and off0 being what they held before
parse_rfstation_code(data, on0, off0) ==
    LET von == hex2ulong(data.on)
        voff == hex2ulong(data.off)
        vtiming == hex2ulong(data.timing)
    IN  IF von = 0 THEN [ret |-> 0, on |-> on0, off |-> off0]
        ELSE IF voff = 0 THEN [ret |-> 0, on |-> von, off |-> off0]
        ELSE IF vtiming = 0 THEN [ret |-> 0, on |-> von, off |-> voff]
        ELSE [ret |-> vtiming, on |-> von, off |-> voff]

RfRepeats == 15
RfTopBit == 23

\* (code >> i) & 1
CodeBit(code, i) == (code \div (2 ^ i)) % 2

\* one repetition: the bits of the code from bit 23 down, then the sync
RfFrame(code, len) ==
    [k \in 1 .. (RfTopBit + 2) |->
        IF k <= RfTopBit + 1
        THEN (IF CodeBit(code, RfTopBit + 1 - k) = 1
              THEN <<len * 3, len>> ELSE <<len, len * 3>>)
        ELSE <<len, len * 31>>]

\* send_rfsignal: the calls of transmit_rfbit
send_rfsignal(code, len) ==
    [j \in 1 .. (RfRepeats * (RfTopBit + 2)) |->
        RfFrame(code, len)[((j - 1) % (RfTopBit + 2)) + 1]]

\* on0 and off0 are what the locals on and off hold before the parse
switch_rfstation(r, data, turnon, on0, off0) ==
    LET p == parse_rfstation_code(data, on0, off0)
        code == IF turnon # 0 THEN p.on ELSE p.off
    IN  [r EXCEPT !.called = TRUE, !.data = data, !.turnon = turnon,
                  !.length = p.ret, !.on = p.on, !.off = p.off,
                  !.code = code,
                  !.pulses = send_rfsignal(code, p.ret)]

\* the fields of the special data: a code or a timing, all zeros, and one
\* with a character that is not a hex digit
OnFields ==
    { <<"5", "1", "A", "b", "0", "3">>, <<"0", "0", "0", "0", "0", "0">>,
      <<"5", "1", "G", "b", "0", "3">> }
OffFields ==
    { <<"5", "1", "a", "B", "0", "C">>, <<"0", "0", "0", "0", "0", "0">>,
      <<"5", "1", "a", "B", "0", " ">> }
TimingFields ==
    { <<"0", "0", "C", "8">>, <<"0", "0", "0", "0">>, <<"0", "1", "x", "0">> }

\* what a local that was never written may hold
Uninitialized == {0, 11259375}

InitRf ==
    /\ InitRest
    /\ flow = Flow0
    /\ files = Files0
    /\ \E b \in {0, 1} :
          calc = [Calc0 EXCEPT
                    !.mem = [Mem0 EXCEPT !.bytes = [i \in 1 .. MaxBoards |->
                                                      IF i = 1 THEN b ELSE 0]]]

\* set_station_bit(0, value), station 0 being an RF station: the bit, then
\* switch_special_station and switch_rfstation when the bit has changed
SwitchRf ==
    /\ calc.fn = "none"
    /\ \E value \in {0, 1}, on \in OnFields, off \in OffFields,
          timing \in TimingFields, on0 \in Uninitialized,
          off0 \in Uninitialized :
          LET m == SetStationBit(calc.mem, 0, value, TRUE)
              data == [on |-> on, off |-> off, timing |-> timing]
          IN  calc' = [calc EXCEPT
                         !.fn = "switch_rf", !.old = calc.mem, !.mem = m,
                         !.value = value,
                         !.rf = IF m.ret = 0 THEN @
                                ELSE switch_rfstation(@, data, value, on0, off0)]
    /\ UNCHANGED <<loop, flow, files>>

NextRf == SwitchRf

SpecRf == InitRf /\ [][NextRf]_vars

\* a field that parses to zero or holds a character that is not a hex digit
Malformed(data) ==
    hex2ulong(data.on) = 0 \/ hex2ulong(data.off) = 0
        \/ hex2ulong(data.timing) = 0

\* the pulses are 15 times the 24 bits of the code, bit 23 first, a 1 as
\* (3T, T) and a 0 as (T, 3T), each time followed by the sync (T, 31T)
BurstOf(pulses, code, t) ==
    /\ Len(pulses) = 15 * 25
    /\ \A n \in 0 .. 14 :
          /\ \A k \in 1 .. 24 :
                pulses[n * 25 + k] =
                    IF (code \div (2 ^ (24 - k))) % 2 = 1
                    THEN <<3 * t, t>> ELSE <<t, 3 * t>>
          /\ pulses[n * 25 + 25] = <<t, 31 * t>>

\* C40: switching an RF station whose special data is malformed writes
\* nothing to the RF pin and sends no pulse, the station bit in memory being
\* flipped all the same; with valid data 15 repetitions of the 24 bits of
\* the selected code, each followed by the sync, are sent
C40_MalformedNoOp ==
    calc.rf.called =>
        /\ ByteAt(calc.mem, 0) % 2 = calc.value
        /\ ByteAt(calc.old, 0) % 2 # calc.value
        /\ Malformed(calc.rf.data) => calc.rf.pulses = <<>>
        /\ ~Malformed(calc.rf.data) =>
              BurstOf(calc.rf.pulses,
                      hex2ulong(IF calc.value = 1 THEN calc.rf.data.on
                                ELSE calc.rf.data.off),
                      hex2ulong(calc.rf.data.timing))

\* the part that holds: the bit is flipped, and valid data gives the burst
ValidBurst ==
    calc.rf.called =>
        /\ ByteAt(calc.mem, 0) % 2 = calc.value
        /\ ByteAt(calc.old, 0) % 2 # calc.value
        /\ ~Malformed(calc.rf.data) =>
              BurstOf(calc.rf.pulses,
                      hex2ulong(IF calc.value = 1 THEN calc.rf.data.on
                                ELSE calc.rf.data.off),
                      hex2ulong(calc.rf.data.timing))

\* malformed data always gives 375 pulses of no length, 750 writes to the pin
MalformedPulses ==
    (calc.rf.called /\ Malformed(calc.rf.data)) =>
        /\ Len(calc.rf.pulses) = 15 * 25
        /\ \A j \in 1 .. Len(calc.rf.pulses) : calc.rf.pulses[j] = <<0, 0>>

\* a switch-on with an on field that does not parse: pulses are sent, for a
\* code that was never written
MalformedSent ==
    /\ calc.rf.called
    /\ calc.value = 1
    /\ hex2ulong(calc.rf.data.on) = 0
    /\ calc.rf.code = 11259375
    /\ Len(calc.rf.pulses) = 15 * 25

\* a switch-on with valid data
ValidSent ==
    /\ calc.rf.called
    /\ calc.value = 1
    /\ ~Malformed(calc.rf.data)
    /\ calc.rf.code = 5352195 /\ calc.rf.length = 200
    /\ calc.rf.pulses[1] = <<200, 600>> /\ calc.rf.pulses[25] = <<200, 6200>>

====
